---- MODULE Spec2Model ----
(***************************************************************************)
(* Model of the Tongji RAG backend: the chat endpoint (app/server.py), the *)
(* pipelines (app/pipelines.py) and the Redis-backed HistoryManager, the   *)
(* VectorRetriever and the LLMGenerator (app/components.py).               *)
(*                                                                         *)
(* Text is a sequence of symbols, a chunk is a text, and concatenating     *)
(* strings is \o on sequences.  Similarity scores are in hundredths        *)
(* (0.8 is 80).                                                            *)
(***************************************************************************)
EXTENDS Integers, Sequences, FiniteSets, TLC

VARIABLES
    user_sessions,   \* Redis hashes user_sessions:{user_id}: session_id -> meta
    chat_history,    \* Redis lists chat_history:{session_id}
    issued,          \* session ids uuid4 has already produced
    req,             \* the chat requests: endpoint and generator frames
    appended,        \* history: every rpush, in order, with the request that made it
    last_read,       \* the last result of get_recent_turns, with its session id
    n_appends,       \* number of appends made by direct store calls
    rate_limit,      \* Redis counters rate_limit:{user_id}; 0 when the key is absent
    workers,         \* number of server processes that share the Redis store
    key_ttl,         \* remaining lifetime of the Redis keys, in ticks
    written,         \* history: per session, its creation and the time since its last write
    del,             \* the frame of a delete_session call
    fuse,            \* a call of _keyword_rerank: arguments, result, the list afterwards
    vsearch,         \* a call of VectorRetriever.search: arguments and result
    refresh          \* Redis keys refresh_token:{token} and the frames of the refresh calls

\* the expiry state of the store
ttlVars == <<key_ttl, written>>

\* the frames of the calls that are made on their own
callVars == <<del, fuse, vsearch, refresh>>

vars ==
    <<user_sessions, chat_history, issued, req, appended, last_read, n_appends,
      rate_limit, workers, key_ttl, written, del, fuse, vsearch,
      refresh>>

-----------------------------------------------------------------------------
(* Bounds of the model *)

\* longest chunk sequence a synthesis stream produces before it ends or raises
MaxChunks == 1

\* number of appends the direct store calls of SpecStore make
MaxAppends == 8

\* number of clock ticks in one ttl: a tick is ttl / TicksPerTtl seconds
TicksPerTtl == 2

\* number of turns the direct calls of SpecSession append
MaxSessionAppends == 1

\* longest candidate list given to _keyword_rerank in SpecFuse
MaxDocs == 3

\* longest list of collection names given to search in SpecSearch
MaxCollections == 2

\* the appends to the turn logs in the specification of the log
MaxLogAppends == 2

\* the highest value the rate counter of a guest reaches in the
\* specification of the rate limit
MaxRateCount == 12

\* number of refresh tokens create_tokens produces in SpecRefresh
MaxTokens == 4

-----------------------------------------------------------------------------
(* Program constants *)

\* HistoryManager.max_turns
max_turns == 6

\* PublicPipeline.FAQ_THRESHOLD, in hundredths
FAQ_THRESHOLD == 80

\* chat_endpoint: requests a guest may make in one window
GUEST_RATE_LIMIT == 10

\* chat_endpoint: length of the title cut from the first query
TITLE_LEN == 15

COLLECTION_FAQ == "rag_faq"
COLLECTION_STANDARD == "rag_standard"
COLLECTION_KNOWLEDGE == "rag_knowledge"
COLLECTION_INTERNAL == "rag_internal"
COLLECTION_PERSONAL == "rag_person_info"

Collections ==
    {COLLECTION_FAQ, COLLECTION_STANDARD, COLLECTION_KNOWLEDGE,
     COLLECTION_INTERNAL, COLLECTION_PERSONAL}

ROLE_GUEST == "guest"
ROLE_STUDENT == "student"
ROLE_TEACHER == "teacher"
ROLE_SCHOLAR == "scholar"

VALID_SESSION_TYPES == {"public", "academic", "internal", "personal"}

\* the table with the scholar permitted for every type
RoutePermissionsScholarAll ==
    [t \in VALID_SESSION_TYPES |->
        CASE t = "public"   -> {ROLE_GUEST, ROLE_STUDENT, ROLE_TEACHER, ROLE_SCHOLAR}
          [] t = "academic" -> {ROLE_STUDENT, ROLE_TEACHER, ROLE_SCHOLAR}
          [] t = "internal" -> {ROLE_STUDENT, ROLE_TEACHER, ROLE_SCHOLAR}
          [] t = "personal" -> {ROLE_STUDENT, ROLE_TEACHER, ROLE_SCHOLAR}]

ROUTE_PERMISSIONS ==
    [t \in VALID_SESSION_TYPES |->
        CASE t = "public"   -> {ROLE_GUEST, ROLE_STUDENT, ROLE_TEACHER, ROLE_SCHOLAR}
          [] t = "academic" -> {ROLE_STUDENT, ROLE_TEACHER, ROLE_SCHOLAR}
          [] t = "internal" -> {ROLE_STUDENT, ROLE_TEACHER}
          [] t = "personal" -> {ROLE_STUDENT, ROLE_TEACHER}]

-----------------------------------------------------------------------------
(* Values *)

\* Python's None
None == "None"

\* HGET of a field the hash does not hold
NoMeta == [title |-> <<>>, type |-> None]

\* no get_recent_turns result is held
NoRead == [valid |-> FALSE, sid |-> None, turns |-> <<>>]

\* UserContext values the auth layer can hand over: a guest, a student with a
\* department, and a student token whose subject is empty and has no department
GuestUser == [user_id |-> "guest", user_role |-> ROLE_GUEST, dept_id |-> None]
DeptUser == [user_id |-> "1", user_role |-> ROLE_STUDENT, dept_id |-> "cs"]
AnonUser == [user_id |-> "", user_role |-> ROLE_STUDENT, dept_id |-> None]

Users == {GuestUser, DeptUser, AnonUser}

\* a scholar and a teacher, for the specification of the role checks
ScholarUser == [user_id |-> "2", user_role |-> ROLE_SCHOLAR, dept_id |-> None]
TeacherUser == [user_id |-> "3", user_role |-> ROLE_TEACHER, dept_id |-> "cs"]

AllUsers == Users \cup {ScholarUser, TeacherUser}

UserIds == {u.user_id : u \in AllUsers}

SessionIds == {"s1", "s2"}

Reqs == {"r1", "r2"}

\* the raw query of each request: a list of words, each a text
QueryOf(r) ==
    IF r = "r1" THEN <<"t", "j">> ELSE <<"x", "y", "z">>

\* what the rewrite model answers for a query
RewriteOutput(q) == <<"r", "w">> \o q

-----------------------------------------------------------------------------
(* Small helpers *)

Min(a, b) == IF a < b THEN a ELSE b

Max(a, b) == IF a > b THEN a ELSE b

\* str(n)
Numeral(n) ==
    <<"1", "2", "3", "4", "5", "6", "7", "8", "9", "10", "11", "12">>[n]

\* Python truthiness of an Optional[str]
Truthy(x) == x # None /\ x # ""

-----------------------------------------------------------------------------
(* HistoryManager over Redis *)

\* redis LRANGE key start stop on a list, with Redis' index rules (0-based,
\* negative indices count from the tail, out-of-range indices are clamped)
LRangeHead(list, start, stop) ==
    SubSeq(list, 1, Min(Len(list), max_turns))

LRange(list, start, stop) ==
    LET n  == Len(list)
        s0 == IF start < 0 THEN Max(n + start, 0) ELSE start
        e0 == IF stop < 0 THEN n + stop ELSE Min(stop, n - 1)
    IN  IF s0 > e0 \/ s0 >= n THEN <<>> ELSE SubSeq(list, s0 + 1, e0 + 1)

\* the key chat_history:{session_id}; the list stored under it
HistoryKeyShared(sid) == "s1"

HistoryKey(sid) == sid

\* json.dumps of a turn; time.time() is not modelled
TurnJson(role, content) == [role |-> role, content |-> content]

\* the conversion of a stored turn to a LangChain message
ToMessage(item) ==
    IF item.role = "user"
    THEN [type |-> "human", content |-> item.content]
    ELSE [type |-> "ai", content |-> item.content]

ToMessages(items) == [i \in 1..Len(items) |-> ToMessage(items[i])]

\* HistoryManager.get_recent_turns
get_recent_turns(sid) ==
    LET list == chat_history[HistoryKey(sid)]
    IN  IF list = <<>>
        THEN <<>>
        ELSE ToMessages(LRange(list, -max_turns, -1))

\* HistoryManager.ttl, the lifetime redis EXPIRE gives a key, in ticks
ttl == TicksPerTtl

\* no creation of the session recorded
NotWritten ==
    [created |-> FALSE, owner |-> None, type |-> None, age |-> 0, deleted |-> FALSE]

\* a write to the session is recorded: the time since its last write is 0
Touched(w) == [w EXCEPT !.age = 0]

\* LPUSH instead of RPUSH
LPushTurn(sid, role, content, by) ==
    /\ chat_history' =
         [chat_history EXCEPT ![HistoryKey(sid)] = <<TurnJson(role, content)>> \o @]
    /\ key_ttl' = [key_ttl EXCEPT !.hist[HistoryKey(sid)] = ttl]
    /\ appended' =
         [appended EXCEPT ![sid] =
             Append(@, [item |-> TurnJson(role, content), by |-> by])]
    /\ written' = [written EXCEPT ![sid] = Touched(@)]

\* redis RPUSH of one turn and EXPIRE of the list, as append_user_message /
\* append_ai_message do it; by is the request (or "store") that makes the call
RPushTurn(sid, role, content, by) ==
    /\ chat_history' =
         [chat_history EXCEPT ![HistoryKey(sid)] = Append(@, TurnJson(role, content))]
    /\ key_ttl' = [key_ttl EXCEPT !.hist[HistoryKey(sid)] = ttl]
    /\ appended' =
         [appended EXCEPT ![sid] =
             Append(@, [item |-> TurnJson(role, content), by |-> by])]
    /\ written' = [written EXCEPT ![sid] = Touched(@)]

\* HistoryManager.update_session_title: the metadata with meta['title'] = title
WithTitleRetyped(meta, title) == [title |-> title, type |-> "public"]

WithTitle(meta, title) == [meta EXCEPT !.title = title]

\* HistoryManager.check_session_type
CheckSessionTypeLax(user_id, sid, required_type) ==
    LET meta == user_sessions[user_id][sid]
    IN  meta = NoMeta \/ meta.type = required_type

\* the type of the session looked up under every user
CheckSessionTypeAnyOwner(user_id, sid, required_type) ==
    \E u \in UserIds : user_sessions[u][sid].type = required_type

check_session_type(user_id, sid, required_type) ==
    LET meta == user_sessions[user_id][sid]
    IN  IF meta = NoMeta THEN FALSE ELSE meta.type = required_type

-----------------------------------------------------------------------------
(* Rational numbers <<numerator, denominator>>, denominator > 0, in lowest  *)
(* terms: the scores of documents                                          *)

RECURSIVE Gcd(_, _)
Gcd(a, b) == IF b = 0 THEN a ELSE Gcd(b, a % b)

Abs(a) == IF a < 0 THEN -a ELSE a

Rat(n, d) ==
    LET g == Gcd(Abs(n), d)
    IN  IF n = 0 THEN <<0, 1>> ELSE <<n \div g, d \div g>>

RatLE(x, y) == x[1] * y[2] <= y[1] * x[2]

RatLT(x, y) == x[1] * y[2] < y[1] * x[2]

RatSub(x, y) == Rat(x[1] * y[2] - y[1] * x[2], x[2] * y[2])

RatAdd(x, y) == Rat(x[1] * y[2] + y[1] * x[2], x[2] * y[2])

RatMul(x, y) == Rat(x[1] * y[1], x[2] * y[2])

\* x / y for y > 0
RatDiv(x, y) == Rat(x[1] * y[2], x[2] * y[1])

\* a similarity given in hundredths
Hundredths(n) == Rat(n, 100)

-----------------------------------------------------------------------------
(* Sequences *)

Take(seq, k) == SubSeq(seq, 1, Min(Len(seq), k))

RECURSIVE Flatten(_)
Flatten(seqs) ==
    IF seqs = <<>> THEN <<>> ELSE Head(seqs) \o Flatten(Tail(seqs))

\* list.sort(key=lambda x: x.score, reverse=True): stable, descending
RECURSIVE InsertDesc(_, _)
InsertDesc(sorted, d) ==
    IF sorted = <<>> THEN <<d>>
    ELSE IF RatLT(Head(sorted).score, d.score)
         THEN <<d>> \o sorted
         ELSE <<Head(sorted)>> \o InsertDesc(Tail(sorted), d)

\* the list left in the order given
SortDescUnsorted(docs) == docs

RECURSIVE SortDesc(_)
SortDesc(docs) ==
    IF docs = <<>> THEN <<>>
    ELSE InsertDesc(SortDesc(SubSeq(docs, 1, Len(docs) - 1)), docs[Len(docs)])

\* Python's "kw in content" on strings
IsSubstring(kw, content) ==
    \E i \in 0..(Len(content) - Len(kw)) :
        SubSeq(content, i + 1, i + Len(kw)) = kw

-----------------------------------------------------------------------------
(* VectorRetriever over Milvus *)

\* a field the entity of a hit does not carry
Absent == <<"<absent>">>

AbsentStr == "<absent>"

\* dict.get(field, default), for a text field and for an identifier field
GetText(entity, field, default) ==
    IF entity[field] = Absent THEN default ELSE entity[field]

GetStr(entity, field, default) ==
    IF entity[field] = AbsentStr THEN default ELSE entity[field]

\* the filter expression given to Milvus: "" or "<field> == '<value>'"
NoFilter == <<>>

FilterEq(field, value) == <<field, "==", value>>

\* Milvus' evaluation of a filter expression on an entity
Matches(entity, filters) ==
    \/ filters = NoFilter
    \/ /\ filters[1] = "dept_id"
       /\ entity.dept_id = filters[3]
    \/ /\ filters[1] = "user_id"
       /\ entity.user_id = filters[3]

RagHit(id, dist, text, source, dept, uid) ==
    [id |-> id, distance |-> Hundredths(dist),
     entity |-> [question |-> Absent, answer |-> Absent, text |-> text,
                 source |-> source, dept_id |-> dept, user_id |-> uid]]

FaqHit(id, dist, question, answer) ==
    [id |-> id, distance |-> Hundredths(dist),
     entity |-> [question |-> question, answer |-> answer, text |-> Absent,
                 source |-> "faq", dept_id |-> AbsentStr, user_id |-> AbsentStr]]

\* the contents of the index, FAQ collection apart: each collection's hits
\* for a query, best first
IndexData(col) ==
    CASE col = COLLECTION_STANDARD ->
           <<RagHit("d1", 90, <<"m", "a", "p">>, "web", "", ""),
             RagHit("d2", 70, <<"t", "j", " ", "f", "e", "e">>, "web", "", "")>>
      [] col = COLLECTION_KNOWLEDGE ->
           <<RagHit("k1", 80, <<"t", "j", " ", "l", "a", "b">>, "paper", "", "")>>
      [] col = COLLECTION_INTERNAL ->
           <<RagHit("i1", 95, <<"c", "s", " ", "t", "j">>, "notice", "cs", ""),
             RagHit("i2", 85, <<"e", "e">>, "notice", "ee", ""),
             RagHit("i3", 60, <<"a", "l", "l">>, "notice", "unknown", "")>>
      [] col = COLLECTION_PERSONAL ->
           <<RagHit("p1", 90, <<"g", "p", "a">>, "record", "", "1"),
             RagHit("p2", 88, <<"t", "j", " ", "i", "d">>, "record", "", "guest"),
             RagHit("p3", 50, <<"f", "e", "e">>, "record", "", "")>>
      [] OTHER -> <<>>

\* what the FAQ collection can hold for a query: nothing, or one best hit
FaqContents ==
    {<<>>,
     <<FaqHit("f1", 79, <<"q">>, <<"a", "n", "s">>)>>,
     <<FaqHit("f1", 80, <<"q">>, <<"a", "n", "s">>)>>,
     <<FaqHit("f1", 85, <<"q">>, <<>>)>>}

\* the outcome of the external calls of one search: whether embedding the
\* query works, whether list_collections works, which collections exist,
\* for which of them the similarity query raises, and what the FAQ
\* collection holds.  In the pipelines every collection exists and answers.
Envs ==
    [embed_ok : BOOLEAN, list_ok : {TRUE}, existing : {Collections},
     raising : {{}}, faq : FaqContents]

\* MilvusClient.search on one collection: the best top_k hits passing the filter
SimilaritySearch(col, top_k, filters, env) ==
    LET all == IF col = COLLECTION_FAQ THEN env.faq ELSE IndexData(col)
    IN  Take(SelectSeq(all, LAMBDA h : Matches(h.entity, filters)), top_k)

\* the Document built from one hit
MakeDocument(hit, col) ==
    LET entity == hit.entity
        is_faq == entity.answer # Absent /\ entity.answer # <<>>
    IN  [id |-> hit.id,
         content |-> IF is_faq THEN entity.question ELSE GetText(entity, "text", <<>>),
         score |-> hit.distance,
         source |-> GetStr(entity, "source", col),
         metadata |-> [is_faq |-> is_faq,
                       answer |-> GetText(entity, "answer", <<>>),
                       dept_id |-> GetStr(entity, "dept_id", ""),
                       user_id |-> GetStr(entity, "user_id", "")]]

\* one pass of the loop over the collection names: the documents it appends.
\* A name that is not in list_collections is skipped, an exception of the
\* similarity query is caught and printed
CollectionDocs(col, top_k, filters, env) ==
    IF col \notin env.existing THEN <<>>
    ELSE IF col \in env.raising THEN <<>>
    ELSE LET res == SimilaritySearch(col, top_k, filters, env)
         IN  [i \in 1..Len(res) |-> MakeDocument(res[i], col)]

\* VectorRetriever.search: collections is the list of names
SearchCollectionsAborting(collections, top_k, filters, env) ==
    IF \E i \in 1..Len(collections) :
          collections[i] \notin env.existing \/ collections[i] \in env.raising
    THEN <<>>
    ELSE Flatten([i \in 1..Len(collections) |->
                    CollectionDocs(collections[i], top_k, filters, env)])

RECURSIVE SearchCollections(_, _, _, _)
SearchCollections(collections, top_k, filters, env) ==
    IF collections = <<>> THEN <<>>
    ELSE CollectionDocs(Head(collections), top_k, filters, env)
         \o SearchCollections(Tail(collections), top_k, filters, env)

\* the hits cut to top_k in the order they arrived, then sorted
CutThenSort(all_results, top_k) == SortDesc(Take(all_results, top_k))

\* all_results.sort(key=score, reverse=True); return all_results[:top_k]
SortAndCut(all_results, top_k) == Take(SortDesc(all_results), top_k)

\* the flattened hits returned as they are
SearchAllHits(collections, top_k, filters, env) ==
    IF ~env.embed_ok
    THEN <<>>
    ELSE IF ~env.list_ok
    THEN <<>>
    ELSE SortDesc(SearchCollections(collections, top_k, filters, env))

SearchIgnoringErrors(collections, top_k, filters, env) ==
    Take(SortDesc(SearchCollections(collections, top_k, filters, env)), top_k)

search(collections, top_k, filters, env) ==
    IF ~env.embed_ok
    THEN <<>>
    ELSE IF ~env.list_ok
    THEN <<>>
    ELSE SortAndCut(SearchCollections(collections, top_k, filters, env), top_k)

-----------------------------------------------------------------------------
(* BasePipeline._keyword_rerank *)

\* jieba.lcut_for_search: the words of a text are its maximal runs of
\* symbols other than the blank; the blanks are tokens of length 1
RECURSIVE Segment(_)
Segment(text) ==
    IF text = <<>> THEN <<>>
    ELSE IF Head(text) = " "
         THEN <<<<" ">>>> \o Segment(Tail(text))
         ELSE LET rest == Segment(Tail(text))
              IN  IF rest # <<>> /\ Head(rest) # <<" ">>
                  THEN <<<<Head(text)>> \o Head(rest)>> \o Tail(rest)
                  ELSE <<<<Head(text)>>>> \o rest

KeywordsAnyLength(query) ==
    LET seg_list == Segment(query)
    IN  {seg_list[i] : i \in {j \in 1..Len(seg_list) : seg_list[j] # <<" ">>}}

Keywords(query) ==
    LET seg_list == Segment(query)
    IN  {seg_list[i] : i \in {j \in 1..Len(seg_list) : Len(seg_list[j]) > 1}}

WEIGHT_VECTOR == Rat(6, 10)

WEIGHT_KEYWORD == Rat(4, 10)

RECURSIVE MinScore(_)
MinScore(docs) ==
    IF Len(docs) = 1 THEN docs[1].score
    ELSE LET m == MinScore(Tail(docs))
         IN  IF RatLT(docs[1].score, m) THEN docs[1].score ELSE m

RECURSIVE MaxScore(_)
MaxScore(docs) ==
    IF Len(docs) = 1 THEN docs[1].score
    ELSE LET m == MaxScore(Tail(docs))
         IN  IF RatLT(m, docs[1].score) THEN docs[1].score ELSE m

\* score_range = max_s - min_s if max_s != min_s else 1.0
ScoreRange(docs) ==
    LET min_s == MinScore(docs)
        max_s == MaxScore(docs)
    IN  IF max_s # min_s THEN RatSub(max_s, min_s) ELSE <<1, 1>>

\* norm_vec_score = (doc.score - min_s) / score_range
NormVecScoreOneIfFlat(doc, min_s, score_range) ==
    IF score_range = <<1, 1>> /\ doc.score = min_s
    THEN <<1, 1>>
    ELSE RatDiv(RatSub(doc.score, min_s), score_range)

NormVecScore(doc, min_s, score_range) ==
    RatDiv(RatSub(doc.score, min_s), score_range)

\* keyword_score = hit_count / len(keywords)
KeywordScore(doc, keywords) ==
    LET hit_count == Cardinality({kw \in keywords : IsSubstring(kw, doc.content)})
    IN  Rat(hit_count, Cardinality(keywords))

FusedScoreInverted(doc, keywords, min_s, score_range) ==
    RatAdd(RatMul(WEIGHT_VECTOR,
                  RatSub(<<1, 1>>, NormVecScore(doc, min_s, score_range))),
           RatMul(WEIGHT_KEYWORD, KeywordScore(doc, keywords)))

FusedScoreSwapped(doc, keywords, min_s, score_range) ==
    RatAdd(RatMul(WEIGHT_KEYWORD, NormVecScore(doc, min_s, score_range)),
           RatMul(WEIGHT_VECTOR, KeywordScore(doc, keywords)))

FusedScore(doc, keywords, min_s, score_range) ==
    RatAdd(RatMul(WEIGHT_VECTOR, NormVecScore(doc, min_s, score_range)),
           RatMul(WEIGHT_KEYWORD, KeywordScore(doc, keywords)))

\* the loop "for doc in docs: ... doc.score = final_score": the documents
\* with their new scores, in the order of the list
FusedDocs(query, docs) ==
    LET keywords == Keywords(query)
        min_s == MinScore(docs)
        score_range == ScoreRange(docs)
    IN  [i \in 1..Len(docs) |->
           [docs[i] EXCEPT !.score = FusedScore(docs[i], keywords, min_s, score_range)]]

\* the list the caller passed, after the call: the early returns leave it
\* alone, otherwise its documents carry the fused scores and docs.sort has
\* sorted it in place
DocsAfterRerank(query, docs) ==
    IF docs = <<>> \/ Keywords(query) = {}
    THEN docs
    ELSE SortDesc(FusedDocs(query, docs))

keyword_rerank(query, docs, final_k) ==
    IF docs = <<>> THEN <<>>
    ELSE IF Keywords(query) = {} THEN Take(docs, final_k)
    ELSE Take(DocsAfterRerank(query, docs), final_k)

-----------------------------------------------------------------------------
(* LLMGenerator *)

\* LLMGenerator.rewrite_query: no model call on an empty history; a failed
\* call falls back to the current text.  ok is the outcome of the model call.
\* the call and its outcome: whether chain.invoke was called, whether it
\* raised, and the rewritten_text returned
RewriteResultAlwaysCalls(history, current, ok) ==
    [called |-> TRUE, raised |-> ~ok,
     rewritten_text |-> IF ok THEN RewriteOutput(current) ELSE current]

RewriteResultLosesText(history, current, ok) ==
    IF history = <<>>
    THEN [called |-> FALSE, raised |-> FALSE, rewritten_text |-> current]
    ELSE [called |-> TRUE, raised |-> ~ok,
          rewritten_text |-> IF ok THEN RewriteOutput(current) ELSE <<>>]

RewriteResult(history, current, ok) ==
    IF history = <<>>
    THEN [called |-> FALSE, raised |-> FALSE, rewritten_text |-> current]
    ELSE [called |-> TRUE, raised |-> ~ok,
          rewritten_text |-> IF ok THEN RewriteOutput(current) ELSE current]

RewriteCalled(history) == RewriteResult(history, <<>>, TRUE).called

rewrite_query(history, current, ok) ==
    RewriteResult(history, current, ok).rewritten_text

\* the context handed to the generation model: source and content of each
\* document, in order
ContextOf(docs) == [i \in 1..Len(docs) |-> <<docs[i].source, docs[i].content>>]

\* the i-th chunk the generation model streams to request r
ChunkText(r, i) == <<r, Numeral(i)>>

\* str(e) of the exception the stream raises
ExcText == <<"e">>

-----------------------------------------------------------------------------
(* The calls one execution makes, in order *)

Call(op) == [op |-> op, cols |-> <<>>, top_k |-> 0, filters |-> NoFilter]

SearchCall(cols, top_k, filters) ==
    [op |-> "search", cols |-> cols, top_k |-> top_k, filters |-> filters]

-----------------------------------------------------------------------------
(* The retrieval strategies: each gives what it raised, the documents and   *)
(* the searches it made.  env1 and env2 are the outcomes of its first and   *)
(* second retriever.search call.                                            *)

\* the searches made again when they gave nothing
RetrievedRetrying(docs, searches) ==
    [raised |-> FALSE, docs |-> docs,
     searches |-> IF docs = <<>> THEN searches \o searches ELSE searches]

Retrieved(docs, searches) == [raised |-> FALSE, docs |-> docs, searches |-> searches]

Raised == [raised |-> TRUE, docs |-> <<>>, searches |-> <<>>]

\* PublicPipeline._retrieve_strategy
PublicRetrieve(query, user, env1, env2) ==
    LET candidates == search(<<COLLECTION_STANDARD>>, 15, NoFilter, env1)
    IN  Retrieved(keyword_rerank(query, candidates, 4),
                  <<SearchCall(<<COLLECTION_STANDARD>>, 15, NoFilter)>>)

\* the academic search naming the internal collection as well
ScholarRetrieveAllShared(query, user, env1, env2) ==
    LET cols == <<COLLECTION_STANDARD, COLLECTION_KNOWLEDGE, COLLECTION_INTERNAL>>
        candidates == search(cols, 20, NoFilter, env1)
    IN  Retrieved(keyword_rerank(query, candidates, 6),
                  <<SearchCall(cols, 20, NoFilter)>>)

\* ScholarPipeline._retrieve_strategy
ScholarRetrieve(query, user, env1, env2) ==
    LET cols == <<COLLECTION_STANDARD, COLLECTION_KNOWLEDGE>>
        candidates == search(cols, 20, NoFilter, env1)
    IN  Retrieved(keyword_rerank(query, candidates, 6),
                  <<SearchCall(cols, 20, NoFilter)>>)

\* InternalPipeline._retrieve_strategy
InternalRetrieveRejecting(query, user, env1, env2) ==
    IF ~Truthy(user.dept_id) THEN Raised
    ELSE LET filter_expr == FilterEq("dept_id", user.dept_id)
             cols == <<COLLECTION_STANDARD, COLLECTION_KNOWLEDGE>>
             docs_public == search(cols, 10, NoFilter, env1)
             docs_internal == search(<<COLLECTION_INTERNAL>>, 10, filter_expr, env2)
         IN  Retrieved(keyword_rerank(query, docs_public \o docs_internal, 5),
                       <<SearchCall(cols, 10, NoFilter),
                         SearchCall(<<COLLECTION_INTERNAL>>, 10, filter_expr)>>)

InternalRetrieveUnfiltered(query, user, env1, env2) ==
    LET filter_expr == IF ~Truthy(user.dept_id)
                       THEN NoFilter
                       ELSE FilterEq("dept_id", user.dept_id)
        cols == <<COLLECTION_STANDARD, COLLECTION_KNOWLEDGE>>
        docs_public == search(cols, 10, NoFilter, env1)
        docs_internal == search(<<COLLECTION_INTERNAL>>, 10, filter_expr, env2)
    IN  Retrieved(keyword_rerank(query, docs_public \o docs_internal, 5),
                  <<SearchCall(cols, 10, NoFilter),
                    SearchCall(<<COLLECTION_INTERNAL>>, 10, filter_expr)>>)

InternalRetrieve(query, user, env1, env2) ==
    LET filter_expr == IF ~Truthy(user.dept_id)
                       THEN FilterEq("dept_id", "unknown")
                       ELSE FilterEq("dept_id", user.dept_id)
        cols == <<COLLECTION_STANDARD, COLLECTION_KNOWLEDGE>>
        docs_public == search(cols, 10, NoFilter, env1)
        docs_internal == search(<<COLLECTION_INTERNAL>>, 10, filter_expr, env2)
    IN  Retrieved(keyword_rerank(query, docs_public \o docs_internal, 5),
                  <<SearchCall(cols, 10, NoFilter),
                    SearchCall(<<COLLECTION_INTERNAL>>, 10, filter_expr)>>)

\* PersonalPipeline._retrieve_strategy
PersonalRetrieveNoGuard(query, user, env1, env2) ==
    LET filter_expr == FilterEq("user_id", user.user_id)
        candidates == search(<<COLLECTION_PERSONAL>>, 10, filter_expr, env1)
    IN  Retrieved(keyword_rerank(query, candidates, 5),
                  <<SearchCall(<<COLLECTION_PERSONAL>>, 10, filter_expr)>>)

PersonalRetrieveFromText(query, user, env1, env2) ==
    IF ~Truthy(user.user_id) THEN Raised
    ELSE LET filter_expr == FilterEq("user_id", Head(query))
             candidates == search(<<COLLECTION_PERSONAL>>, 10, filter_expr, env1)
         IN  Retrieved(keyword_rerank(query, candidates, 5),
                       <<SearchCall(<<COLLECTION_PERSONAL>>, 10, filter_expr)>>)

PersonalRetrieve(query, user, env1, env2) ==
    IF ~Truthy(user.user_id) THEN Raised
    ELSE LET filter_expr == FilterEq("user_id", user.user_id)
             candidates == search(<<COLLECTION_PERSONAL>>, 10, filter_expr, env1)
         IN  Retrieved(keyword_rerank(query, candidates, 5),
                       <<SearchCall(<<COLLECTION_PERSONAL>>, 10, filter_expr)>>)

\* pipelines[type]._retrieve_strategy
retrieve_strategy(tier, query, user, env1, env2) ==
    CASE tier = "public"   -> PublicRetrieve(query, user, env1, env2)
      [] tier = "academic" -> ScholarRetrieve(query, user, env1, env2)
      [] tier = "internal" -> InternalRetrieve(query, user, env1, env2)
      [] tier = "personal" -> PersonalRetrieve(query, user, env1, env2)

-----------------------------------------------------------------------------
(* Direct store calls: append_user_message, append_ai_message,              *)
(* get_recent_turns on any session                                          *)

\* the content of the n-th direct append: unique per call
StoreContent(n) == <<"m", Numeral(n)>>

StoreAppendUser(sid) ==
    /\ n_appends < MaxAppends
    /\ RPushTurn(sid, "user", StoreContent(n_appends + 1), "store")
    /\ n_appends' = n_appends + 1
    /\ last_read' = NoRead
    /\ UNCHANGED <<user_sessions, issued, req, rate_limit, workers, callVars>>

StoreAppendAI(sid) ==
    /\ n_appends < MaxAppends
    /\ RPushTurn(sid, "assistant", StoreContent(n_appends + 1), "store")
    /\ n_appends' = n_appends + 1
    /\ last_read' = NoRead
    /\ UNCHANGED <<user_sessions, issued, req, rate_limit, workers, callVars>>

StoreGetRecent(sid) ==
    /\ last_read' = [valid |-> TRUE, sid |-> sid, turns |-> get_recent_turns(sid)]
    /\ UNCHANGED <<user_sessions, chat_history, issued, req, appended, n_appends,
                   rate_limit, workers, ttlVars, callVars>>

-----------------------------------------------------------------------------
(* The requests and the event loop *)

IdleReq ==
    [pc |-> "idle", user |-> GuestUser, tier |-> "public", sid |-> "s1",
     http |-> 0, meta |-> NoMeta,
     history |-> <<>>, rewritten |-> <<>>, faq_results |-> <<>>,
     context |-> <<>>, full_answer |-> <<>>, n_chunks |-> 0,
     events |-> <<>>, calls |-> <<>>]

Set(r, rec) == req' = [req EXCEPT ![r] = rec]

\* The handlers are async functions that call Redis, Milvus and the models
\* synchronously: in one server process (uvicorn.run(app)) a handler, and the
\* generator between two yields, run on the event loop without interruption.
\* A request is at rest when it does not hold the event loop: before its
\* call, after its handler returned, at a yield, and when it has ended.
AtRest(r) ==
    req[r].pc \in {"idle", "rejected", "exec", "yielded", "err_yielded",
                   "sc_yielded", "done", "failed", "cancelled"}

LoopFree == workers > 1 \/ \A r \in Reqs : AtRest(r)

CanRunUnserialised(r) == TRUE

CanRun(r) == workers > 1 \/ \A o \in Reqs \ {r} : AtRest(o)

-----------------------------------------------------------------------------
(* Session management endpoints (server.py)                                 *)

DefaultTitle == <<"new">>

\* the order in which the model hands out the session ids
SidLE(a, b) == a = "s1" \/ b # "s1"

\* create_new_session, with HistoryManager.create_session; uuid4 gives an id
\* never given before
CreateSession(u, type) ==
    /\ LoopFree
    /\ type \in VALID_SESSION_TYPES
    /\ u.user_role \in ROUTE_PERMISSIONS[type]
    /\ \E sid \in SessionIds \ issued :
         /\ \A other \in SessionIds \ issued : SidLE(sid, other)
         /\ user_sessions' =
              [user_sessions EXCEPT ![u.user_id][sid] =
                  [title |-> DefaultTitle, type |-> type]]
         /\ key_ttl' = [key_ttl EXCEPT !.meta[u.user_id] = ttl]
         /\ written' = [written EXCEPT ![sid] =
                           [created |-> TRUE, owner |-> u.user_id,
                            type |-> type, age |-> 0, deleted |-> FALSE]]
         /\ issued' = issued \cup {sid}
    /\ UNCHANGED <<chat_history, req, appended, last_read, n_appends, rate_limit,
                   workers, callVars>>

-----------------------------------------------------------------------------
(* chat_endpoint (server.py): one request r, from the call to the start of  *)
(* the event stream                                                         *)

\* the rate counter of a guest incremented before the two checks
ChatRequestCounting(r, u, tier, sid) ==
    /\ req[r].pc = "idle"
    /\ CanRun(r)
    /\ rate_limit' = IF u.user_role = ROLE_GUEST
                     THEN [rate_limit EXCEPT ![u.user_id] = @ + 1]
                     ELSE rate_limit
    /\ LET allowed == u.user_role \in ROUTE_PERMISSIONS[tier]
           ok == check_session_type(u.user_id, sid, tier)
           base == [req[r] EXCEPT !.user = u, !.tier = tier, !.sid = sid]
       IN  IF ~allowed
           THEN Set(r, [req[r] EXCEPT !.pc = "rejected", !.http = 403])
           ELSE IF ~ok
           THEN Set(r, [req[r] EXCEPT !.pc = "rejected", !.http = 400])
           ELSE Set(r, [base EXCEPT !.pc = "title"])
    /\ UNCHANGED <<user_sessions, chat_history, issued, appended, last_read,
                   n_appends, workers, ttlVars, callVars>>

\* the role check and the session binding check
ChatRequest(r, u, tier, sid) ==
    /\ req[r].pc = "idle"
    /\ CanRun(r)
    /\ LET allowed == u.user_role \in ROUTE_PERMISSIONS[tier]
           ok == check_session_type(u.user_id, sid, tier)
           base == [req[r] EXCEPT !.user = u, !.tier = tier, !.sid = sid]
       IN  IF ~allowed
           THEN Set(r, [req[r] EXCEPT !.pc = "rejected", !.http = 403])
           ELSE IF ~ok
           THEN Set(r, [req[r] EXCEPT !.pc = "rejected", !.http = 400])
           ELSE Set(r, [base EXCEPT
                           !.pc = IF u.user_role = ROLE_GUEST
                                  THEN "rate_limit" ELSE "title"])
    /\ UNCHANGED <<user_sessions, chat_history, issued, appended, last_read,
                   n_appends, rate_limit, workers, ttlVars, callVars>>

\* the counter compared before it is incremented
ChatRateLimitLate(r) ==
    /\ req[r].pc = "rate_limit"
    /\ CanRun(r)
    /\ LET uid == req[r].user.user_id
       IN  /\ rate_limit' = [rate_limit EXCEPT ![uid] = @ + 1]
           /\ IF rate_limit[uid] > GUEST_RATE_LIMIT
              THEN Set(r, [req[r] EXCEPT !.pc = "rejected", !.http = 429])
              ELSE Set(r, [req[r] EXCEPT !.pc = "title"])
    /\ UNCHANGED <<user_sessions, chat_history, issued, appended, last_read,
                   n_appends, workers, ttlVars, callVars>>

\* the guest rate limit: INCR, EXPIRE 60 on the first request of a window
ChatRateLimit(r) ==
    /\ req[r].pc = "rate_limit"
    /\ CanRun(r)
    /\ LET uid == req[r].user.user_id
           request_count == rate_limit[uid] + 1
       IN  /\ rate_limit' = [rate_limit EXCEPT ![uid] = request_count]
           /\ IF request_count > GUEST_RATE_LIMIT
              THEN Set(r, [req[r] EXCEPT !.pc = "rejected", !.http = 429])
              ELSE Set(r, [req[r] EXCEPT !.pc = "title"])
    /\ UNCHANGED <<user_sessions, chat_history, issued, appended, last_read,
                   n_appends, workers, ttlVars, callVars>>

\* the 60 s window of a rate counter ends: Redis drops the key
RateLimitExpire(uid) ==
    /\ rate_limit[uid] > 0
    /\ rate_limit' = [rate_limit EXCEPT ![uid] = 0]
    /\ UNCHANGED <<user_sessions, chat_history, issued, req, appended, last_read,
                   n_appends, workers, ttlVars, callVars>>

\* title generation: get_recent_turns of the session
ChatTitleRead(r) ==
    /\ req[r].pc = "title"
    /\ CanRun(r)
    /\ IF Truthy(req[r].user.user_id) /\ get_recent_turns(req[r].sid) = <<>>
       THEN Set(r, [req[r] EXCEPT !.pc = "title_hget"])
       ELSE Set(r, [req[r] EXCEPT !.pc = "exec", !.http = 200])
    /\ UNCHANGED <<user_sessions, chat_history, issued, appended, last_read,
                   n_appends, rate_limit, workers, ttlVars, callVars>>

\* HistoryManager.update_session_title: HGET of the metadata
ChatTitleHGet(r) ==
    /\ req[r].pc = "title_hget"
    /\ CanRun(r)
    /\ LET meta_json == user_sessions[req[r].user.user_id][req[r].sid]
       IN  IF meta_json # NoMeta
           THEN Set(r, [req[r] EXCEPT !.pc = "title_hset", !.meta = meta_json])
           ELSE Set(r, [req[r] EXCEPT !.pc = "exec", !.http = 200])
    /\ UNCHANGED <<user_sessions, chat_history, issued, appended, last_read,
                   n_appends, rate_limit, workers, ttlVars, callVars>>

\* HistoryManager.update_session_title: HSET of the metadata with the new title
ChatTitleHSet(r) ==
    /\ req[r].pc = "title_hset"
    /\ CanRun(r)
    /\ user_sessions' =
         [user_sessions EXCEPT ![req[r].user.user_id][req[r].sid] =
             WithTitle(req[r].meta, Take(QueryOf(r), TITLE_LEN))]
    /\ written' = [written EXCEPT ![req[r].sid] = Touched(@)]
    /\ Set(r, [req[r] EXCEPT !.pc = "exec", !.http = 200, !.meta = NoMeta])
    /\ UNCHANGED <<chat_history, issued, appended, last_read, n_appends, rate_limit,
                   workers, key_ttl, callVars>>

-----------------------------------------------------------------------------
(* BasePipeline.execute and PublicPipeline.execute, driven by                *)
(* chat_endpoint.event_generator: the generator frame of request r          *)

Log(rec, call) == [rec EXCEPT !.calls = Append(@, call)]

Emit(rec, kind, data) ==
    [rec EXCEPT !.events = Append(@, [kind |-> kind, data |-> data])]

\* get_recent_turns and rewrite_query; ok is the outcome of the rewrite model
ExecStart(r, ok) ==
    /\ req[r].pc = "exec"
    /\ CanRun(r)
    /\ LET history == get_recent_turns(req[r].sid)
           rec1 == Log(req[r], Call("get_recent_turns"))
           res == RewriteResult(history, QueryOf(r), ok)
           rec1a == IF RewriteCalled(history) THEN Log(rec1, Call("rewrite")) ELSE rec1
           rec2 == IF res.raised THEN Log(rec1a, Call("rewrite_raised")) ELSE rec1a
       IN  Set(r, [rec2 EXCEPT !.history = history,
                               !.rewritten = rewrite_query(history, QueryOf(r), ok),
                               !.pc = "append_user"])
    /\ UNCHANGED <<user_sessions, chat_history, issued, appended, last_read,
                   n_appends, rate_limit, workers, ttlVars, callVars>>

\* append_user_message of the raw query
ExecAppendUserSkipped(r) ==
    /\ req[r].pc = "append_user"
    /\ CanRun(r)
    /\ Set(r, [req[r] EXCEPT
                 !.pc = IF req[r].tier = "public" THEN "faq" ELSE "retrieve"])
    /\ UNCHANGED <<user_sessions, chat_history, issued, appended, last_read,
                   n_appends, rate_limit, workers, ttlVars, callVars>>

ExecAppendUser(r) ==
    /\ req[r].pc = "append_user"
    /\ CanRun(r)
    /\ RPushTurn(req[r].sid, "user", QueryOf(r), r)
    /\ Set(r, [Log(req[r], Call("append_user")) EXCEPT
                 !.pc = IF req[r].tier = "public" THEN "faq" ELSE "retrieve"])
    /\ UNCHANGED <<user_sessions, issued, last_read, n_appends, rate_limit, workers,
                   callVars>>

\* PublicPipeline.execute: whether the FAQ result short-circuits
FaqHitStrict(faq_results) ==
    /\ faq_results # <<>>
    /\ RatLT(Hundredths(FAQ_THRESHOLD), faq_results[1].score)
    /\ faq_results[1].metadata.answer # <<>>

faq_hit(faq_results) ==
    /\ faq_results # <<>>
    /\ RatLE(Hundredths(FAQ_THRESHOLD), faq_results[1].score)
    /\ faq_results[1].metadata.answer # <<>>

FaqPrefix == <<"[official]">>

\* PublicPipeline.execute: the FAQ search, and the yield of the canonical
\* answer when it hits
FaqCheck(r, env) ==
    /\ req[r].pc = "faq"
    /\ CanRun(r)
    /\ LET faq_results == search(<<COLLECTION_FAQ>>, 1, NoFilter, env)
           rec == [Log(req[r], SearchCall(<<COLLECTION_FAQ>>, 1, NoFilter))
                     EXCEPT !.faq_results = faq_results]
       IN  IF faq_hit(faq_results)
           THEN LET final_output == FaqPrefix \o faq_results[1].metadata.answer
                IN  Set(r, [Emit(rec, "chunk", final_output) EXCEPT
                              !.full_answer = final_output,
                              !.pc = "sc_yielded"])
           ELSE Set(r, [rec EXCEPT !.pc = "retrieve"])
    /\ UNCHANGED <<user_sessions, chat_history, issued, appended, last_read,
                   n_appends, rate_limit, workers, ttlVars, callVars>>

\* the canonical answer sent but not appended
ResumeShortCircuitUnsaved(r) ==
    /\ req[r].pc = "sc_yielded"
    /\ CanRun(r)
    /\ Set(r, [Emit(req[r], "done", <<>>) EXCEPT
                 !.history = <<>>,
                 !.rewritten = <<>>,
                 !.pc = "done"])
    /\ UNCHANGED <<user_sessions, chat_history, issued, appended, last_read,
                   n_appends, rate_limit, workers, ttlVars, callVars>>

\* the generator resumes after the canonical answer: append_ai_message,
\* return; event_generator sends [DONE]
ResumeShortCircuit(r) ==
    /\ req[r].pc = "sc_yielded"
    /\ CanRun(r)
    /\ RPushTurn(req[r].sid, "assistant", req[r].full_answer, r)
    /\ Set(r, [Emit(Log(req[r], Call("append_ai")), "done", <<>>) EXCEPT
                 !.history = <<>>,
                 !.rewritten = <<>>,
                 !.pc = "done"])
    /\ UNCHANGED <<user_sessions, issued, last_read, n_appends, rate_limit, workers,
                   callVars>>

\* _retrieve_strategy, then the call of generate_answer; an exception of the
\* strategy ends the generator and event_generator sends an error event
Retrieve(r, env1, env2) ==
    /\ req[r].pc = "retrieve"
    /\ CanRun(r)
    /\ LET res == retrieve_strategy(req[r].tier, req[r].rewritten, req[r].user,
                                    env1, env2)
           rec == [req[r] EXCEPT !.calls = @ \o res.searches]
       IN  IF res.raised
           THEN Set(r, [Emit(rec, "error", <<"User ID required">>) EXCEPT
                          !.history = <<>>,
                          !.rewritten = <<>>,
                          !.pc = "failed"])
           ELSE Set(r, [Log(rec, Call("generate_answer")) EXCEPT
                          !.context = ContextOf(res.docs),
                          !.history = <<>>,
                          !.rewritten = <<>>,
                          !.faq_results = <<>>,
                          !.pc = "stream"])
    /\ UNCHANGED <<user_sessions, chat_history, issued, appended, last_read,
                   n_appends, rate_limit, workers, ttlVars, callVars>>

\* the text of the error chunk
ErrorChunk(tier) ==
    IF tier = "public" THEN <<"Error: ">> \o ExcText ELSE <<"gen-error: ">> \o ExcText

\* full_answer when the error chunk is yielded: BasePipeline adds the error
\* text before the yield, PublicPipeline after it
FullAnswerAtErrorYield(tier, full_answer) ==
    IF tier = "public" THEN full_answer ELSE full_answer \o ErrorChunk(tier)

FullAnswerAfterErrorDropped(tier, full_answer) == full_answer

FullAnswerAfterError(tier, full_answer) ==
    IF tier = "public" THEN full_answer \o ErrorChunk(tier) ELSE full_answer

Streaming(r) == req[r].pc \in {"stream", "yielded"}

\* the stream gives its next chunk: accumulate it and yield it
StreamChunk(r) ==
    /\ Streaming(r)
    /\ CanRun(r)
    /\ req[r].n_chunks < MaxChunks
    /\ LET chunk == ChunkText(r, req[r].n_chunks + 1)
       IN  Set(r, [Emit(req[r], "chunk", chunk) EXCEPT
                     !.context = <<>>,
                     !.full_answer = @ \o chunk,
                     !.n_chunks = @ + 1,
                     !.pc = "yielded"])
    /\ UNCHANGED <<user_sessions, chat_history, issued, appended, last_read,
                   n_appends, rate_limit, workers, ttlVars, callVars>>

\* the stream raises: the error text is yielded as a chunk
StreamError(r) ==
    /\ Streaming(r)
    /\ CanRun(r)
    /\ Set(r, [Emit(req[r], "chunk", ErrorChunk(req[r].tier)) EXCEPT
                 !.context = <<>>,
                 !.full_answer = FullAnswerAtErrorYield(req[r].tier, @),
                 !.pc = "err_yielded"])
    /\ UNCHANGED <<user_sessions, chat_history, issued, appended, last_read,
                   n_appends, rate_limit, workers, ttlVars, callVars>>

\* the generator resumes after the error chunk: append_ai_message, return
ResumeAfterError(r) ==
    /\ req[r].pc = "err_yielded"
    /\ CanRun(r)
    /\ LET full_answer == FullAnswerAfterError(req[r].tier, req[r].full_answer)
       IN  /\ RPushTurn(req[r].sid, "assistant", full_answer, r)
           /\ Set(r, [Emit(Log(req[r], Call("append_ai")), "done", <<>>) EXCEPT
                        !.full_answer = full_answer,
                        !.pc = "done"])
    /\ UNCHANGED <<user_sessions, issued, last_read, n_appends, rate_limit, workers,
                   callVars>>

\* full_answer kept on the pipeline instance, which the executions of a tier
\* share, instead of in the generator's frame
StreamEndSharedBuffer(r) ==
    /\ Streaming(r)
    /\ CanRun(r)
    /\ LET others == {o \in Reqs \ {r} :
                        req[o].tier = req[r].tier /\ req[o].full_answer # <<>>}
           full_answer == IF others = {} THEN req[r].full_answer
                          ELSE req[CHOOSE o \in others : TRUE].full_answer
       IN  RPushTurn(req[r].sid, "assistant", full_answer, r)
    /\ Set(r, [Emit(Log(req[r], Call("append_ai")), "done", <<>>) EXCEPT
                 !.context = <<>>,
                 !.pc = "done"])
    /\ UNCHANGED <<user_sessions, issued, last_read, n_appends, rate_limit, workers,
                   callVars>>

StreamEndSilent(r) ==
    /\ Streaming(r)
    /\ CanRun(r)
    /\ RPushTurn(req[r].sid, "assistant", req[r].full_answer, r)
    /\ Set(r, [Log(req[r], Call("append_ai")) EXCEPT
                 !.context = <<>>,
                 !.pc = "done"])
    /\ UNCHANGED <<user_sessions, issued, last_read, n_appends, rate_limit, workers,
                   callVars>>

\* the stream ends: append_ai_message, return; event_generator sends [DONE]
StreamEnd(r) ==
    /\ Streaming(r)
    /\ CanRun(r)
    /\ RPushTurn(req[r].sid, "assistant", req[r].full_answer, r)
    /\ Set(r, [Emit(Log(req[r], Call("append_ai")), "done", <<>>) EXCEPT
                 !.context = <<>>,
                 !.pc = "done"])
    /\ UNCHANGED <<user_sessions, issued, last_read, n_appends, rate_limit, workers,
                   callVars>>

\* the client disconnects while the generator is suspended at a yield:
\* GeneratorExit is raised at the yield, is no Exception, and ends the
\* generator; no statement after the yield runs
Suspended(r) == req[r].pc \in {"yielded", "err_yielded", "sc_yielded"}

Cancel(r) ==
    /\ Suspended(r)
    /\ CanRun(r)
    /\ Set(r, [req[r] EXCEPT !.pc = "cancelled", !.history = <<>>,
                              !.rewritten = <<>>])
    /\ UNCHANGED <<user_sessions, chat_history, issued, appended, last_read,
                   n_appends, rate_limit, workers, ttlVars, callVars>>

-----------------------------------------------------------------------------

\* no delete_session call in progress
NoDelete == [pc |-> "idle", user_id |-> None, sid |-> None]

\* no _keyword_rerank call made
NoFuse ==
    [stage |-> "none", query |-> <<>>, docs |-> <<>>, final_k |-> 0,
     norms |-> <<>>, coverage |-> <<>>, out |-> <<>>, after |-> <<>>,
     again |-> <<>>]

\* the arguments of the _keyword_rerank calls: queries with no, one and two
\* keywords, candidates over three scores and three contents
FuseQueries ==
    {<<"a", " ", "b">>, <<"t", "j">>, <<"t", "j", " ", "l", "a", "b">>}

FuseScores == {10, 50, 90}

FuseContents ==
    {<<"m", "a", "p">>, <<"t", "j", " ", "f", "e", "e">>,
     <<"t", "j", " ", "l", "a", "b">>}

\* candidate i of a list: a Document as search builds it
Candidate(i, dist, text) ==
    MakeDocument(RagHit(Numeral(i), dist, text, "web", "", ""), COLLECTION_STANDARD)

CandidateLists ==
    UNION {[1..n -> FuseScores \X FuseContents] : n \in 0..MaxDocs}

FuseArgs ==
    {[NoFuse EXCEPT !.stage = "args", !.query = q, !.final_k = k,
                    !.docs = [i \in 1..Len(l) |-> Candidate(i, l[i][1], l[i][2])]] :
        q \in FuseQueries, k \in 1..MaxDocs, l \in CandidateLists}

\* a call _keyword_rerank(query, docs, final_k); norms and coverage are the
\* norm_vec_score and keyword_score of the loop, per candidate
FuseCall ==
    /\ fuse.stage = "args"
    /\ LET scored == fuse.docs # <<>> /\ Keywords(fuse.query) # {}
           min_s == MinScore(fuse.docs)
           score_range == ScoreRange(fuse.docs)
       IN  fuse' =
             [fuse EXCEPT
                !.stage = "called",
                !.norms = IF scored
                          THEN [i \in 1..Len(fuse.docs) |->
                                  NormVecScore(fuse.docs[i], min_s, score_range)]
                          ELSE <<>>,
                !.coverage = IF scored
                             THEN [i \in 1..Len(fuse.docs) |->
                                     KeywordScore(fuse.docs[i], Keywords(fuse.query))]
                             ELSE <<>>,
                !.out = keyword_rerank(fuse.query, fuse.docs, fuse.final_k),
                !.after = DocsAfterRerank(fuse.query, fuse.docs)]
    /\ UNCHANGED <<user_sessions, chat_history, issued, req, appended, last_read,
                   n_appends, rate_limit, workers, ttlVars, del, vsearch,
                   refresh>>

\* a second call, on the list the first call returned
FuseAgain ==
    /\ fuse.stage = "called"
    /\ fuse' = [fuse EXCEPT
                  !.stage = "again",
                  !.again = keyword_rerank(fuse.query, fuse.out, fuse.final_k)]
    /\ UNCHANGED <<user_sessions, chat_history, issued, req, appended, last_read,
                   n_appends, rate_limit, workers, ttlVars, del, vsearch,
                   refresh>>

\* no search call made
NoEnv ==
    [embed_ok |-> TRUE, list_ok |-> TRUE, existing |-> {}, raising |-> {},
     faq |-> <<>>]

NoSearch ==
    [stage |-> "none", collections |-> <<>>, top_k |-> 0, filters |-> <<>>,
     env |-> NoEnv, out |-> <<>>, rest |-> <<>>]

\* the arguments of the search calls: lists of different collection names
SearchNames ==
    {COLLECTION_FAQ, COLLECTION_STANDARD, COLLECTION_KNOWLEDGE, COLLECTION_INTERNAL}

NameLists ==
    {l \in UNION {[1..n -> SearchNames] : n \in 1..MaxCollections} :
        \A i, j \in 1..Len(l) : i # j => l[i] # l[j]}

SearchTopKs == {1, 3, 10}

SearchFilters == {NoFilter, FilterEq("dept_id", "cs")}

\* at most one collection is missing, at most one raises
AtMostOne == {{}} \cup {{c} : c \in SearchNames}

SearchCallEnvs ==
    [embed_ok : BOOLEAN, list_ok : BOOLEAN,
     existing : {Collections \ m : m \in AtMostOne}, raising : AtMostOne,
     faq : {<<>>, <<FaqHit("f1", 80, <<"q">>, <<"a", "n", "s">>)>>}]

SearchArgs ==
    {[NoSearch EXCEPT !.stage = "args", !.collections = l, !.top_k = k,
                      !.filters = f, !.env = e] :
        l \in NameLists, k \in SearchTopKs, f \in SearchFilters, e \in SearchCallEnvs}

\* the names of a list that exist and whose similarity query does not raise
Answering(collections, env) ==
    SelectSeq(collections, LAMBDA c : c \in env.existing /\ c \notin env.raising)

\* a call search(query, collections, top_k, filters), and the same call
\* naming only the collections that exist and answer
SearchCallAndRest ==
    /\ vsearch.stage = "args"
    /\ vsearch' =
         [vsearch EXCEPT
            !.stage = "called",
            !.out = search(vsearch.collections, vsearch.top_k, vsearch.filters,
                           vsearch.env),
            !.rest = search(Answering(vsearch.collections, vsearch.env),
                            vsearch.top_k, vsearch.filters, vsearch.env)]
    /\ UNCHANGED <<user_sessions, chat_history, issued, req, appended, last_read,
                   n_appends, rate_limit, workers, ttlVars, del, fuse,
                   refresh>>

-----------------------------------------------------------------------------
(* The sessions in the store: HistoryManager calls made on their own, the   *)
(* delete_session call, and the passing of time                             *)

\* a handler other than the delete_session call may run
DeleteAtRest == workers > 1 \/ del.pc = "idle"

NewTitle == <<"t">>

\* HistoryManager.update_session_title
UpdateSessionTitle(user_id, sid) ==
    /\ DeleteAtRest
    /\ user_sessions[user_id][sid] # NoMeta
    /\ user_sessions' =
         [user_sessions EXCEPT ![user_id][sid] = WithTitle(@, NewTitle)]
    /\ written' = [written EXCEPT ![sid] = Touched(@)]
    /\ UNCHANGED <<chat_history, issued, req, appended, last_read, n_appends,
                   rate_limit, workers, key_ttl, callVars>>

\* append_user_message / append_ai_message of a chat on a session of the user
SessionAppend(user_id, sid, role) ==
    /\ DeleteAtRest
    /\ n_appends < MaxSessionAppends
    /\ user_sessions[user_id][sid] # NoMeta
    /\ RPushTurn(sid, role, StoreContent(n_appends + 1), "store")
    /\ n_appends' = n_appends + 1
    /\ UNCHANGED <<user_sessions, issued, req, last_read, rate_limit, workers, callVars>>

\* redis: a hash without fields does not exist
HashTtlAfter(user_id, sessions) ==
    IF \A s \in SessionIds : sessions[user_id][s] = NoMeta
    THEN 0
    ELSE key_ttl.meta[user_id]

\* delete_session_endpoint and delete_session up to the HDEL of the metadata
DeleteHDel(user_id, sid) ==
    /\ del.pc = "idle"
    /\ Truthy(user_id)
    /\ user_sessions[user_id][sid] # NoMeta
    /\ user_sessions' = [user_sessions EXCEPT ![user_id][sid] = NoMeta]
    /\ key_ttl' = [key_ttl EXCEPT !.meta[user_id] = HashTtlAfter(user_id, user_sessions')]
    /\ written' = [written EXCEPT ![sid].deleted = TRUE]
    /\ del' = [pc |-> "hdel_done", user_id |-> user_id, sid |-> sid]
    /\ UNCHANGED <<chat_history, issued, req, appended, last_read, n_appends,
                   rate_limit, workers, fuse, vsearch,
                   refresh>>

\* delete_session: DEL of the turn log
DeleteHistory ==
    /\ del.pc = "hdel_done"
    /\ chat_history' = [chat_history EXCEPT ![HistoryKey(del.sid)] = <<>>]
    /\ key_ttl' = [key_ttl EXCEPT !.hist[HistoryKey(del.sid)] = 0]
    /\ del' = NoDelete
    /\ UNCHANGED <<user_sessions, issued, req, appended, last_read, n_appends,
                   rate_limit, workers, written, fuse, vsearch,
                   refresh>>

\* delete_session: the DEL raises (the connection to Redis is lost), or the
\* process stops before it; the call ends with the HDEL done
DeleteFails ==
    /\ del.pc = "hdel_done"
    /\ del' = NoDelete
    /\ UNCHANGED <<user_sessions, chat_history, issued, req, appended, last_read,
                   n_appends, rate_limit, workers, ttlVars, fuse, vsearch,
                   refresh>>

\* the refresh tokens create_tokens can produce: each has a new jti, so each
\* is a new string; 0 stands for no token
Tokens == 1..MaxTokens

\* the user id of a registered account and the id guest_login makes up
RegisteredId == DeptUser.user_id
GuestLoginId == "guest_a"

\* str(user_id).startswith("guest_")
IsGuestId(user_id) == user_id = GuestLoginId

\* the refresh calls that can be running at the same time
RefreshCalls == {"q1", "q2"}

IdleRefresh == [pc |-> "idle", old_rt |-> 0, user_id |-> None, http |-> 0]

\* no key rt:{token}, no token produced, no call running; parent is history:
\* the token a token was issued for by refresh_token, 0 after a login
NoRefresh ==
    [store |-> [t \in Tokens |-> None],
     minted |-> 0,
     parent |-> [t \in Tokens |-> 0],
     call |-> [q \in RefreshCalls |-> IdleRefresh]]


\* one tick of time passes: Redis drops the keys whose lifetime ends
Tick ==
    /\ DeleteAtRest
    /\ key_ttl' =
         [meta |-> [u \in UserIds |-> Max(key_ttl.meta[u] - 1, 0)],
          hist |-> [s \in SessionIds |-> Max(key_ttl.hist[s] - 1, 0)]]
    /\ user_sessions' =
         [u \in UserIds |->
            IF key_ttl.meta[u] = 1
            THEN [s \in SessionIds |-> NoMeta]
            ELSE user_sessions[u]]
    /\ chat_history' =
         [s \in SessionIds |-> IF key_ttl.hist[s] = 1 THEN <<>> ELSE chat_history[s]]
    /\ written' =
         [s \in SessionIds |->
            IF written[s].created
            THEN [written[s] EXCEPT !.age = Min(@ + 1, ttl)]
            ELSE written[s]]
    /\ UNCHANGED <<issued, req, appended, last_read, n_appends, rate_limit, workers,
                   callVars>>

Init ==
    /\ user_sessions = [u \in UserIds |-> [s \in SessionIds |-> NoMeta]]
    /\ chat_history = [s \in SessionIds |-> <<>>]
    /\ issued = {}
    /\ req = [r \in Reqs |-> IdleReq]
    /\ appended = [s \in SessionIds |-> <<>>]
    /\ last_read = NoRead
    /\ n_appends = 0
    /\ rate_limit = [u \in UserIds |-> 0]
    /\ workers = 1
    /\ key_ttl = [meta |-> [u \in UserIds |-> 0], hist |-> [s \in SessionIds |-> 0]]
    /\ written = [s \in SessionIds |-> NotWritten]
    /\ del = NoDelete
    /\ fuse = NoFuse
    /\ vsearch = NoSearch
    /\ refresh = NoRefresh

StoreNext ==
    \/ \E sid \in SessionIds : StoreAppendUser(sid)
    \/ \E sid \in SessionIds : StoreAppendAI(sid)
    \/ \E sid \in SessionIds : StoreGetRecent(sid)

SpecStore == Init /\ [][StoreNext]_vars

SessionNext ==
    \/ \E u \in Users, type \in VALID_SESSION_TYPES : CreateSession(u, type)
    \/ \E user_id \in UserIds, sid \in SessionIds : UpdateSessionTitle(user_id, sid)
    \/ \E user_id \in UserIds, sid \in SessionIds, role \in {"user", "assistant"} :
          SessionAppend(user_id, sid, role)
    \/ \E user_id \in UserIds, sid \in SessionIds : DeleteHDel(user_id, sid)
    \/ DeleteHistory
    \/ DeleteFails
    \/ Tick

InitFuse ==
    /\ user_sessions = [u \in UserIds |-> [s \in SessionIds |-> NoMeta]]
    /\ chat_history = [s \in SessionIds |-> <<>>]
    /\ issued = {}
    /\ req = [r \in Reqs |-> IdleReq]
    /\ appended = [s \in SessionIds |-> <<>>]
    /\ last_read = NoRead
    /\ n_appends = 0
    /\ rate_limit = [u \in UserIds |-> 0]
    /\ workers = 1
    /\ key_ttl = [meta |-> [u \in UserIds |-> 0], hist |-> [s \in SessionIds |-> 0]]
    /\ written = [s \in SessionIds |-> NotWritten]
    /\ del = NoDelete
    /\ fuse \in FuseArgs
    /\ vsearch = NoSearch
    /\ refresh = NoRefresh

InitSearch ==
    /\ user_sessions = [u \in UserIds |-> [s \in SessionIds |-> NoMeta]]
    /\ chat_history = [s \in SessionIds |-> <<>>]
    /\ issued = {}
    /\ req = [r \in Reqs |-> IdleReq]
    /\ appended = [s \in SessionIds |-> <<>>]
    /\ last_read = NoRead
    /\ n_appends = 0
    /\ rate_limit = [u \in UserIds |-> 0]
    /\ workers = 1
    /\ key_ttl = [meta |-> [u \in UserIds |-> 0], hist |-> [s \in SessionIds |-> 0]]
    /\ written = [s \in SessionIds |-> NotWritten]
    /\ del = NoDelete
    /\ fuse = NoFuse
    /\ vsearch \in SearchArgs
    /\ refresh = NoRefresh

SearchNext == SearchCallAndRest

\* VectorRetriever.search on every argument of SearchArgs
SpecSearch == InitSearch /\ [][SearchNext]_vars

\* the hits of one retrieval in the order the collections delivered them,
\* with the top_k of the search and the query and final_k of the fusion
RankContents == {<<"m", "a", "p">>, <<"t", "j", " ", "l", "a", "b">>}

RankQueries == {<<"a", " ", "b">>, <<"t", "j">>}

RankArgs ==
    {[stage |-> "hits", query |-> q, top_k |-> k, final_k |-> f,
      docs |-> [i \in 1..Len(l) |-> Candidate(i, l[i][1], l[i][2])],
      found |-> <<>>, out |-> <<>>,
      permuted |-> <<>>, found_again |-> <<>>, again |-> <<>>] :
        q \in RankQueries, k \in {2, MaxDocs}, f \in {2},
        l \in UNION {[1..n -> FuseScores \X RankContents] : n \in 0..MaxDocs}}

InitRank ==
    /\ user_sessions = [u \in UserIds |-> [s \in SessionIds |-> NoMeta]]
    /\ chat_history = [s \in SessionIds |-> <<>>]
    /\ issued = {}
    /\ req = [r \in Reqs |-> IdleReq]
    /\ appended = [s \in SessionIds |-> <<>>]
    /\ last_read = NoRead
    /\ n_appends = 0
    /\ rate_limit = [u \in UserIds |-> 0]
    /\ workers = 1
    /\ key_ttl = [meta |-> [u \in UserIds |-> 0], hist |-> [s \in SessionIds |-> 0]]
    /\ written = [s \in SessionIds |-> NotWritten]
    /\ del = NoDelete
    /\ fuse \in RankArgs
    /\ vsearch = NoSearch
    /\ refresh = NoRefresh

\* the end of search on the hits as they arrived, then _keyword_rerank on
\* what it returned
RankCall ==
    /\ fuse.stage = "hits"
    /\ LET found == SortAndCut(fuse.docs, fuse.top_k)
       IN  fuse' = [fuse EXCEPT
                      !.stage = "ranked",
                      !.found = found,
                      !.out = keyword_rerank(fuse.query, found, fuse.final_k)]
    /\ UNCHANGED <<user_sessions, chat_history, issued, req, appended, last_read,
                   n_appends, rate_limit, workers, ttlVars, del, vsearch,
                   refresh>>

\* the same retrieval with the same hits arriving in another order
RankPermuted(p) ==
    /\ fuse.stage = "ranked"
    /\ LET permuted == [i \in 1..Len(fuse.docs) |-> fuse.docs[p[i]]]
           found == SortAndCut(permuted, fuse.top_k)
       IN  fuse' = [fuse EXCEPT
                      !.stage = "permuted",
                      !.permuted = permuted,
                      !.found_again = found,
                      !.again = keyword_rerank(fuse.query, found, fuse.final_k)]
    /\ UNCHANGED <<user_sessions, chat_history, issued, req, appended, last_read,
                   n_appends, rate_limit, workers, ttlVars, del, vsearch,
                   refresh>>

\* the orders in which n hits can arrive
Orders(n) ==
    {p \in [1..n -> 1..n] : \A i, j \in 1..n : p[i] = p[j] => i = j}

RankNext ==
    \/ RankCall
    \/ \E p \in Orders(Len(fuse.docs)) : RankPermuted(p)

\* search followed by _keyword_rerank on the same hits in two arrival orders
SpecRank == InitRank /\ [][RankNext]_vars

FuseNext ==
    \/ FuseCall
    \/ FuseAgain

\* _keyword_rerank on every argument of FuseArgs, and again on its result
SpecFuse == InitFuse /\ [][FuseNext]_vars

\* The sessions of the store under creation, title updates, appends, deletion
\* and expiry
SpecSession == Init /\ [][SessionNext]_vars

\* the user of the specification of the log
LogUser == DeptUser

\* append_user_message / append_ai_message of a chat on a session of the user
LogAppend(user_id, sid, role) ==
    /\ DeleteAtRest
    /\ n_appends < MaxLogAppends
    /\ user_sessions[user_id][sid] # NoMeta
    /\ RPushTurn(sid, role, StoreContent(n_appends + 1), "store")
    /\ n_appends' = n_appends + 1
    /\ UNCHANGED <<user_sessions, issued, req, last_read, rate_limit, workers, callVars>>

LogNext ==
    \/ CreateSession(LogUser, "public")
    \/ \E sid \in SessionIds : UpdateSessionTitle(LogUser.user_id, sid)
    \/ \E sid \in SessionIds, role \in {"user", "assistant"} :
          LogAppend(LogUser.user_id, sid, role)
    \/ \E sid \in SessionIds : DeleteAtRest /\ StoreGetRecent(sid)
    \/ \E sid \in SessionIds : DeleteHDel(LogUser.user_id, sid)
    \/ DeleteHistory
    \/ DeleteFails
    \/ Tick

\* Every operation of HistoryManager on the sessions of one user
SpecLog == Init /\ [][LogNext]_vars

\* UserContext.is_authenticated
is_authenticated(u) == u.user_role # "guest"

\* HistoryManager.get_session_history_detail: every turn of the log
get_session_history_detail(sid) == chat_history[HistoryKey(sid)]

\* get_session_detail: the guard, then the history of the session id; the
\* response is recorded with the user it went to
GetSessionDetail(u, sid) ==
    /\ DeleteAtRest
    /\ last_read' =
         IF ~is_authenticated(u) /\ u.user_role # ROLE_GUEST
         THEN [valid |-> TRUE, sid |-> sid, turns |-> <<>>,
               user_id |-> u.user_id, http |-> 401]
         ELSE [valid |-> TRUE, sid |-> sid,
               turns |-> get_session_history_detail(sid),
               user_id |-> u.user_id, http |-> 200]
    /\ UNCHANGED <<user_sessions, chat_history, issued, req, appended, n_appends,
                   rate_limit, workers, ttlVars, callVars>>

DetailNext ==
    \/ \E u \in Users : CreateSession(u, "public")
    \/ \E user_id \in UserIds, sid \in SessionIds, role \in {"user", "assistant"} :
          LogAppend(user_id, sid, role)
    \/ \E u \in Users, sid \in SessionIds : GetSessionDetail(u, sid)
    \/ \E user_id \in UserIds, sid \in SessionIds : DeleteHDel(user_id, sid)
    \/ DeleteHistory

\* Sessions of several users, their turns, and reads of the history of a
\* session id by every user
SpecDetail == Init /\ [][DetailNext]_vars

\* redis.hdel(user_key, session_id): the number of fields it removes
hdel_count(user_id, sid) == IF user_sessions[user_id][sid] # NoMeta THEN 1 ELSE 0

\* a delete_session that deletes the turn log whatever hdel returned
HistoryAfterDeleteAlways(deleted_count, sid) ==
    [chat_history EXCEPT ![HistoryKey(sid)] = <<>>]

\* delete_session: the turn log is deleted only if deleted_count > 0
HistoryAfterDelete(deleted_count, sid) ==
    IF deleted_count > 0
    THEN [chat_history EXCEPT ![HistoryKey(sid)] = <<>>]
    ELSE chat_history

\* delete_session_endpoint as one call that nothing interrupts: 401 without
\* a user id, otherwise delete_session, 404 when it returns False; the
\* response is recorded with the user it went to
DeleteSessionCall(u, sid) ==
    /\ DeleteAtRest
    /\ LET user_id == u.user_id
           deleted_count == IF Truthy(user_id) THEN hdel_count(user_id, sid) ELSE 0
           success == deleted_count > 0
       IN  /\ user_sessions' =
                IF success
                THEN [user_sessions EXCEPT ![user_id][sid] = NoMeta]
                ELSE user_sessions
           /\ chat_history' =
                IF Truthy(user_id)
                THEN HistoryAfterDelete(deleted_count, sid)
                ELSE chat_history
           /\ key_ttl' =
                [meta |-> IF success
                          THEN [key_ttl.meta EXCEPT
                                  ![user_id] = HashTtlAfter(user_id, user_sessions')]
                          ELSE key_ttl.meta,
                 hist |-> IF chat_history'[HistoryKey(sid)] = <<>>
                          THEN [key_ttl.hist EXCEPT ![HistoryKey(sid)] = 0]
                          ELSE key_ttl.hist]
           /\ written' =
                IF success THEN [written EXCEPT ![sid].deleted = TRUE] ELSE written
           /\ last_read' =
                [valid |-> TRUE, sid |-> sid, turns |-> <<>>, user_id |-> user_id,
                 http |-> IF ~Truthy(user_id) THEN 401
                          ELSE IF success THEN 200 ELSE 404]
    /\ UNCHANGED <<issued, req, appended, n_appends, rate_limit, workers, callVars>>

RefuseNext ==
    \/ \E u \in Users : CreateSession(u, "public")
    \/ \E user_id \in UserIds, sid \in SessionIds, role \in {"user", "assistant"} :
          LogAppend(user_id, sid, role)
    \/ \E u \in Users, sid \in SessionIds : DeleteSessionCall(u, sid)

\* Sessions of several users, their turns, and delete calls of every user on
\* every session id
SpecRefuse == Init /\ [][RefuseNext]_vars

-----------------------------------------------------------------------------
(* Refresh tokens: login, guest_login, refresh_token and logout of server.py *)

\* create_tokens followed by redis_client.set(REDIS_REFRESH_PREFIX + rt, id)
IssueToken(rf, user_id, old_rt) ==
    LET rt == rf.minted + 1
    IN  [rf EXCEPT !.minted = rt,
                   !.store[rt] = user_id,
                   !.parent[rt] = old_rt]

\* pipe.delete(redis_key_old); pipe.set(redis_key_new, user_id); pipe.execute()
Rotate(rf, user_id, old_rt) ==
    LET issued_new == IssueToken(rf, user_id, old_rt)
    IN  [issued_new EXCEPT !.store[old_rt] = None]

\* login of a registered user, after its password check
Login ==
    /\ refresh.minted < MaxTokens
    /\ refresh' = IssueToken(refresh, RegisteredId, 0)
    /\ UNCHANGED <<user_sessions, chat_history, issued, req, appended, last_read,
                   n_appends, rate_limit, workers, ttlVars, del, fuse, vsearch>>

\* guest_login
GuestLogin ==
    /\ refresh.minted < MaxTokens
    /\ refresh' = IssueToken(refresh, GuestLoginId, 0)
    /\ UNCHANGED <<user_sessions, chat_history, issued, req, appended, last_read,
                   n_appends, rate_limit, workers, ttlVars, del, fuse, vsearch>>

\* refresh_token up to its first await: the GET of the presented token, 401
\* when the key is absent; for a guest id the rest of the handler follows
\* without an await, for any other id the handler waits for the database
RefreshGet(q, old_rt) ==
    /\ refresh.call[q].pc # "db"
    /\ IsGuestId(refresh.store[old_rt]) => refresh.minted < MaxTokens
    /\ LET user_id == refresh.store[old_rt]
       IN  refresh' =
             IF ~Truthy(user_id)
             THEN [refresh EXCEPT
                     !.call[q] = [pc |-> "done", old_rt |-> old_rt,
                                  user_id |-> None, http |-> 401]]
             ELSE IF IsGuestId(user_id)
             THEN [Rotate(refresh, user_id, old_rt) EXCEPT
                     !.call[q] = [pc |-> "done", old_rt |-> old_rt,
                                  user_id |-> user_id, http |-> 200]]
             ELSE [refresh EXCEPT
                     !.call[q] = [pc |-> "db", old_rt |-> old_rt,
                                  user_id |-> user_id, http |-> 0]]
    /\ UNCHANGED <<user_sessions, chat_history, issued, req, appended, last_read,
                   n_appends, rate_limit, workers, ttlVars, del, fuse, vsearch>>

\* refresh_token after await db.execute: 401 when the user row is gone,
\* otherwise create_tokens and the DELETE/SET pipeline
RefreshRotate(q, user_found) ==
    /\ refresh.call[q].pc = "db"
    /\ user_found => refresh.minted < MaxTokens
    /\ LET c == refresh.call[q]
       IN  refresh' =
             IF ~user_found
             THEN [refresh EXCEPT !.call[q] = [c EXCEPT !.pc = "done", !.http = 401]]
             ELSE [Rotate(refresh, c.user_id, c.old_rt) EXCEPT
                     !.call[q] = [c EXCEPT !.pc = "done", !.http = 200]]
    /\ UNCHANGED <<user_sessions, chat_history, issued, req, appended, last_read,
                   n_appends, rate_limit, workers, ttlVars, del, fuse, vsearch>>

\* logout: redis_client.delete(REDIS_REFRESH_PREFIX + refresh_token)
Logout(rt) ==
    /\ Truthy(refresh.store[rt])
    /\ refresh' = [refresh EXCEPT !.store[rt] = None]
    /\ UNCHANGED <<user_sessions, chat_history, issued, req, appended, last_read,
                   n_appends, rate_limit, workers, ttlVars, del, fuse, vsearch>>

RefreshNext ==
    \/ Login
    \/ GuestLogin
    \/ \E q \in RefreshCalls, old_rt \in Tokens : RefreshGet(q, old_rt)
    \/ \E q \in RefreshCalls, user_found \in BOOLEAN : RefreshRotate(q, user_found)
    \/ \E rt \in Tokens : Logout(rt)

\* logins, refreshes and logouts of one server process, two refresh calls
\* at a time
SpecRefresh == Init /\ [][RefreshNext]_vars

\* the outcomes of a search that is not on the FAQ collection
SearchEnvs == {e \in Envs : e.faq = <<>>}

Next ==
    \/ \E u \in Users, type \in VALID_SESSION_TYPES : CreateSession(u, type)
    \/ \E r \in Reqs, u \in Users, tier \in VALID_SESSION_TYPES, sid \in SessionIds :
          ChatRequest(r, u, tier, sid)
    \/ \E r \in Reqs : ChatRateLimit(r)
    \/ \E r \in Reqs : ChatTitleRead(r)
    \/ \E r \in Reqs : ChatTitleHGet(r)
    \/ \E r \in Reqs : ChatTitleHSet(r)
    \/ \E r \in Reqs, ok \in BOOLEAN : ExecStart(r, ok)
    \/ \E r \in Reqs : ExecAppendUser(r)
    \/ \E r \in Reqs, env \in Envs : FaqCheck(r, env)
    \/ \E r \in Reqs : ResumeShortCircuit(r)
    \/ \E r \in Reqs, env1 \in SearchEnvs, env2 \in SearchEnvs : Retrieve(r, env1, env2)
    \/ \E r \in Reqs : StreamChunk(r)
    \/ \E r \in Reqs : StreamError(r)
    \/ \E r \in Reqs : ResumeAfterError(r)
    \/ \E r \in Reqs : StreamEnd(r)
    \/ \E r \in Reqs : Cancel(r)

\* One server process, within one window of the guest rate limit
Spec == Init /\ [][Next]_vars

\* The outcomes of a search all of whose external calls fail softly: the
\* embedding raises, or list_collections raises, or the similarity query
\* raises on every collection; the FAQ collection holds an answer that
\* would short-circuit
FailingEnvs ==
    {[embed_ok |-> FALSE, list_ok |-> TRUE, existing |-> Collections,
      raising |-> {}, faq |-> <<FaqHit("f1", 80, <<"q">>, <<"a", "n", "s">>)>>],
     [embed_ok |-> TRUE, list_ok |-> FALSE, existing |-> Collections,
      raising |-> {}, faq |-> <<FaqHit("f1", 80, <<"q">>, <<"a", "n", "s">>)>>],
     [embed_ok |-> TRUE, list_ok |-> TRUE, existing |-> Collections,
      raising |-> Collections, faq |-> <<FaqHit("f1", 80, <<"q">>, <<"a", "n", "s">>)>>]}

\* the request of the specifications that follow one execution
OneReq == {"r1"}

SoftFailNext ==
    \/ \E u \in Users, type \in VALID_SESSION_TYPES : CreateSession(u, type)
    \/ \E r \in OneReq, u \in Users, tier \in VALID_SESSION_TYPES, sid \in SessionIds :
          ChatRequest(r, u, tier, sid)
    \/ \E r \in OneReq : ChatRateLimit(r)
    \/ \E r \in OneReq : ChatTitleRead(r)
    \/ \E r \in OneReq : ChatTitleHGet(r)
    \/ \E r \in OneReq : ChatTitleHSet(r)
    \/ \E r \in OneReq, ok \in BOOLEAN : ExecStart(r, ok)
    \/ \E r \in OneReq : ExecAppendUser(r)
    \/ \E r \in OneReq, env \in FailingEnvs : FaqCheck(r, env)
    \/ \E r \in OneReq, env1 \in FailingEnvs, env2 \in FailingEnvs :
          Retrieve(r, env1, env2)
    \/ \E r \in OneReq : StreamChunk(r)
    \/ \E r \in OneReq : StreamError(r)
    \/ \E r \in OneReq : ResumeAfterError(r)
    \/ \E r \in OneReq : StreamEnd(r)
    \/ \E r \in OneReq : Cancel(r)

\* One execution at a time, every search of which fails softly
SpecSoftFail == Init /\ [][SoftFailNext]_vars

\* a request whose generator has run to its end
Over(r) == req[r].pc \in {"done", "failed"}

\* one step of the generator of request r, from its first resumption to its
\* end
ExecStep(r) ==
    \/ \E ok \in BOOLEAN : ExecStart(r, ok)
    \/ ExecAppendUser(r)
    \/ \E env \in Envs : FaqCheck(r, env)
    \/ ResumeShortCircuit(r)
    \/ \E env1 \in SearchEnvs, env2 \in SearchEnvs : Retrieve(r, env1, env2)
    \/ StreamChunk(r)
    \/ StreamError(r)
    \/ ResumeAfterError(r)
    \/ StreamEnd(r)

\* the steps of the handler of request r
HandlerStep(r) ==
    \/ \E u \in Users, tier \in VALID_SESSION_TYPES, sid \in SessionIds :
          ChatRequest(r, u, tier, sid)
    \/ ChatRateLimit(r)
    \/ ChatTitleRead(r)
    \/ ChatTitleHGet(r)
    \/ ChatTitleHSet(r)

\* the role check, the session check, the rate limit and the title of two
\* concurrent requests of users of every role, and the start of their
\* executions up to the append of the user turn
AccessNext ==
    \/ \E u \in AllUsers, type \in VALID_SESSION_TYPES : CreateSession(u, type)
    \/ \E r \in Reqs, u \in AllUsers, tier \in VALID_SESSION_TYPES, sid \in SessionIds :
          ChatRequest(r, u, tier, sid)
    \/ \E r \in Reqs : ChatRateLimit(r)
    \/ \E r \in Reqs : ChatTitleRead(r)
    \/ \E r \in Reqs : ChatTitleHGet(r)
    \/ \E r \in Reqs : ChatTitleHSet(r)
    \/ \E r \in Reqs : ExecStart(r, TRUE)
    \/ \E r \in Reqs : ExecAppendUser(r)

SpecAccess == Init /\ [][AccessNext]_vars

\* the users and tiers of the specification of the rate limit
RateUsers == {GuestUser, DeptUser}

RateTiers == {"public", "internal"}

\* the guest rate limit while the counter is below the bound of the model
RateStep(r) ==
    /\ rate_limit[req[r].user.user_id] < MaxRateCount
    /\ ChatRateLimit(r)

\* the response of request r has been sent (a rejection, or the streaming
\* response of an admitted request); the next call of chat_endpoint arrives
NewRequest(r) ==
    /\ req[r].pc \in {"rejected", "exec"}
    /\ Set(r, IdleReq)
    /\ UNCHANGED <<user_sessions, chat_history, issued, appended, last_read,
                   n_appends, rate_limit, workers, ttlVars, callVars>>

RateNext ==
    \/ \E u \in RateUsers, type \in RateTiers : CreateSession(u, type)
    \/ \E r \in Reqs, u \in RateUsers, tier \in RateTiers, sid \in SessionIds :
          ChatRequest(r, u, tier, sid)
    \/ \E r \in Reqs : RateStep(r)
    \/ \E r \in Reqs : ChatTitleRead(r)
    \/ \E r \in Reqs : ChatTitleHGet(r)
    \/ \E r \in Reqs : ChatTitleHSet(r)
    \/ \E r \in Reqs : NewRequest(r)
    \/ RateLimitExpire(GuestUser.user_id)

\* Chat requests one after another on two connections, over several windows
\* of the guest rate limit, up to the start of their executions
SpecRate == Init /\ [][RateNext]_vars

\* One chat request and the deletion of sessions in one server process: the
\* delete handler runs while the request is at rest, and the request goes on
\* after it has returned
InFlightNext ==
    \/ del.pc = "idle" /\ \E u \in RateUsers : CreateSession(u, "public")
    \/ del.pc = "idle" /\ HandlerStep("r1")
    \/ del.pc = "idle" /\ ExecStep("r1")
    \/ LoopFree /\ \E user_id \in UserIds, sid \in SessionIds : DeleteHDel(user_id, sid)
    \/ DeleteHistory

SpecInFlight == Init /\ [][InFlightNext]_vars

\* Two requests one after the other, each consumed to its end by its caller
SeqNext ==
    \/ \E u \in Users, type \in VALID_SESSION_TYPES : CreateSession(u, type)
    \/ HandlerStep("r1")
    \/ Over("r1") /\ HandlerStep("r2")
    \/ \E r \in Reqs : ExecStep(r)

\* The response is iterated as long as the caller reads it, and the stream of
\* the generation model is finite: every step of a generator that can be
\* taken is taken
SpecSeq == Init /\ [][SeqNext]_vars /\ \A r \in Reqs : WF_vars(ExecStep(r))

-----------------------------------------------------------------------------
(* C10 *)

\* the last n elements of a sequence
LastN(seq, n) == SubSeq(seq, Max(Len(seq) - n, 0) + 1, Len(seq))

\* C10: get_recent_turns(session_id) returns at most max_turns (= 6) turns,
\* they are the most recent turns appended to that session id, oldest first,
\* and none of them was appended to another session id.
C10_RecentWindow ==
    last_read.valid =>
        LET own == appended[last_read.sid]
            exp == LastN(own, max_turns)
        IN  /\ Len(last_read.turns) <= max_turns
            /\ last_read.turns = [i \in 1..Len(exp) |-> ToMessage(exp[i].item)]
            /\ \A i \in 1..Len(last_read.turns) :
                 \A s \in SessionIds \ {last_read.sid} :
                    \A j \in 1..Len(appended[s]) :
                       appended[s][j].item.content # last_read.turns[i].content

\* a read of a session that holds more than max_turns turns, while another
\* session holds turns too
C10_Witness ==
    /\ last_read.valid
    /\ Len(appended[last_read.sid]) > max_turns
    /\ Len(last_read.turns) = max_turns
    /\ \E s \in SessionIds \ {last_read.sid} : appended[s] # <<>>

-----------------------------------------------------------------------------
(* What the claims observe of an execution *)

\* the positions of the calls of r that are searches or generation calls
WorkCalls(r) ==
    {i \in 1..Len(req[r].calls) :
        req[r].calls[i].op \in {"search", "generate_answer"}}

\* the searches of r that name collection col
SearchesOn(r, col) ==
    {i \in 1..Len(req[r].calls) :
        /\ req[r].calls[i].op = "search"
        /\ \E k \in 1..Len(req[r].calls[i].cols) : req[r].calls[i].cols[k] = col}

CallsOf(r, op) == {i \in 1..Len(req[r].calls) : req[r].calls[i].op = op}

\* the chunks forwarded to the caller of r, concatenated
ChunkEvents(r) == SelectSeq(req[r].events, LAMBDA e : e.kind = "chunk")

Forwarded(r) ==
    LET ch == ChunkEvents(r) IN Flatten([i \in 1..Len(ch) |-> ch[i].data])

\* the turns request r has appended with the given role
TurnsBy(r, role) ==
    SelectSeq(appended[req[r].sid], LAMBDA a : a.by = r /\ a.item.role = role)

Admitted(r) == req[r].pc \notin {"idle", "rejected"}

-----------------------------------------------------------------------------
(* C1 *)

\* C1: a chat request leaves the endpoint's checks unrejected only if the
\* store holds, for its user id and session id, a metadata entry whose type
\* is the request's tier; a request that is rejected has made no VectorIndex
\* search and no AnswerSynthesizer call.
C1_RejectedBeforeWork ==
    [][\A r \in Reqs :
         /\ (req[r].pc = "idle" /\ req'[r].pc \notin {"idle", "rejected"}) =>
               LET meta == user_sessions[req'[r].user.user_id][req'[r].sid]
               IN  meta # NoMeta /\ meta.type = req'[r].tier
         /\ req'[r].pc \in {"idle", "rejected"} => req'[r].calls = <<>>]_vars

\* a request was rejected for its session binding while sessions exist
C1_Witness ==
    \E r \in Reqs :
        /\ req[r].pc = "rejected"
        /\ req[r].http = 400
        /\ req[r].calls = <<>>
        /\ issued # {}

-----------------------------------------------------------------------------
(* C2 *)

\* the department filter of a user context
DeptFilterOf(user) ==
    IF Truthy(user.dept_id)
    THEN <<"dept_id", "==", user.dept_id>>
    ELSE <<"dept_id", "==", "unknown">>

\* C2: every search on the personal-records collection carries the filter
\* user_id == <the user's id>, every search on the internal-notices
\* collection carries dept_id == <the user's department, or 'unknown'>, and
\* neither collection is searched with an empty filter.
C2_MandatoryFilters ==
    \A r \in Reqs :
        /\ \A i \in SearchesOn(r, COLLECTION_PERSONAL) :
              /\ req[r].calls[i].filters = <<"user_id", "==", req[r].user.user_id>>
              /\ req[r].user.user_id # ""
        /\ \A i \in SearchesOn(r, COLLECTION_INTERNAL) :
              req[r].calls[i].filters = DeptFilterOf(req[r].user)

\* a user without department has searched internal-notices and a user has
\* searched personal-records
C2_Witness ==
    \E r1 \in Reqs, r2 \in Reqs :
        /\ ~Truthy(req[r1].user.dept_id)
        /\ SearchesOn(r1, COLLECTION_INTERNAL) # {}
        /\ SearchesOn(r2, COLLECTION_PERSONAL) # {}

-----------------------------------------------------------------------------
(* C3 *)

\* C3: a personal-tier execution whose user_id is empty makes no VectorIndex
\* search and no generation call, and its retrieval step ends it with an
\* error event.
C3_PersonalNeedsUserId ==
    \A r \in Reqs :
        (Admitted(r) /\ req[r].tier = "personal" /\ req[r].user.user_id = "") =>
            /\ WorkCalls(r) = {}
            /\ req[r].pc \in {"title", "title_hget", "title_hset", "exec",
                              "append_user", "retrieve", "failed"}
            /\ req[r].pc = "failed" =>
                  /\ Len(req[r].events) = 1
                  /\ req[r].events[1].kind = "error"

\* the retrieval of a personal-tier execution without user_id has failed
C3_Witness ==
    \E r \in Reqs :
        /\ req[r].tier = "personal"
        /\ req[r].user.user_id = ""
        /\ req[r].pc = "failed"
        /\ WorkCalls(r) = {}

-----------------------------------------------------------------------------
(* C4 *)

\* C4 as claimed: an internal-tier request whose user has no dept_id is
\* rejected before any retrieval.
C4_AsClaimed ==
    \A r \in Reqs :
        (Admitted(r) /\ req[r].tier = "internal" /\ ~Truthy(req[r].user.dept_id)) =>
            WorkCalls(r) = {}

AfterRetrieve(r) ==
    req[r].pc \in {"stream", "yielded", "err_yielded", "done", "cancelled"}

\* C4 as amended: an internal-tier request whose user has no dept_id is not
\* rejected: its retrieval searches internal-notices with the filter
\* dept_id == 'unknown' and goes on to the generation call.
C4_InternalFallsBack ==
    \A r \in Reqs :
        (Admitted(r) /\ req[r].tier = "internal" /\ ~Truthy(req[r].user.dept_id)) =>
            /\ req[r].pc # "failed"
            /\ AfterRetrieve(r) =>
                  /\ \E i \in SearchesOn(r, COLLECTION_INTERNAL) :
                        req[r].calls[i].filters = <<"dept_id", "==", "unknown">>
                  /\ CallsOf(r, "generate_answer") # {}

\* an internal-tier execution of a user without department has completed
C4_Witness ==
    \E r \in Reqs :
        /\ req[r].tier = "internal"
        /\ ~Truthy(req[r].user.dept_id)
        /\ req[r].pc = "done"
        /\ SearchesOn(r, COLLECTION_INTERNAL) # {}

-----------------------------------------------------------------------------
(* C5 *)

\* C5: two executions with the same user context and tier give the same
\* filter to their searches of the same collections, whatever their query
\* texts and session ids.
C5_FilterFromContextOnly ==
    \A r1 \in Reqs, r2 \in Reqs :
        (req[r1].user = req[r2].user /\ req[r1].tier = req[r2].tier) =>
            \A i \in CallsOf(r1, "search"), j \in CallsOf(r2, "search") :
                req[r1].calls[i].cols = req[r2].calls[j].cols =>
                    req[r1].calls[i].filters = req[r2].calls[j].filters

\* two executions of the same user and tier, with different queries,
\* rewritten queries and sessions, have both made a filtered search
C5_Witness ==
    \E r1 \in Reqs, r2 \in Reqs :
        /\ r1 # r2
        /\ req[r1].user = req[r2].user
        /\ req[r1].tier = req[r2].tier
        /\ req[r1].sid # req[r2].sid
        /\ QueryOf(r1) # QueryOf(r2)
        /\ \E i \in CallsOf(r1, "search") : req[r1].calls[i].filters # NoFilter
        /\ \E j \in CallsOf(r2, "search") : req[r2].calls[j].filters # NoFilter

-----------------------------------------------------------------------------
(* C6 *)

\* C6: an execution consumed to completion has persisted exactly one
\* assistant turn, and its content is the concatenation of the chunks
\* forwarded to the caller, also when the stream raised.
C6_PersistedEqualsForwarded ==
    \A r \in Reqs :
        req[r].pc = "done" =>
            LET mine == TurnsBy(r, "assistant")
            IN  /\ Len(mine) = 1
                /\ mine[1].item.content = Forwarded(r)

\* an execution has completed whose stream raised after a partial answer
C6_Witness ==
    \E r \in Reqs :
        /\ req[r].pc = "done"
        /\ Len(ChunkEvents(r)) >= 2
        /\ ChunkEvents(r)[Len(ChunkEvents(r))].data = ErrorChunk(req[r].tier)
        /\ Len(TurnsBy(r, "assistant")) = 1

-----------------------------------------------------------------------------
(* C7 *)

\* C7 as claimed: when the consumer stops after k forwarded chunks, the
\* assistant turn persisted for the execution is the concatenation of those
\* k chunks.
C7_AsClaimed ==
    \A r \in Reqs :
        req[r].pc = "cancelled" =>
            LET mine == TurnsBy(r, "assistant")
            IN  /\ Len(mine) = 1
                /\ mine[1].item.content = Forwarded(r)

-----------------------------------------------------------------------------
(* C8 *)

\* the condition of the short circuit, on the FAQ search result
BestFaqHitQualifies(faq_results) ==
    /\ Len(faq_results) >= 1
    /\ faq_results[1].score[1] * 100 >= FAQ_THRESHOLD * faq_results[1].score[2]
    /\ faq_results[1].metadata.answer # <<>>

\* C8: a public-tier execution short-circuits exactly when the best FAQ hit
\* exists, has similarity >= 0.8 and a non-empty answer.  It then emits the
\* one chunk prefix + answer, persists that string, makes no generation call
\* and does not search the standard collection.  Otherwise it searches the
\* standard collection and makes exactly one generation call.
C8_FaqShortCircuit ==
    \A r \in Reqs :
        req[r].tier = "public" =>
            /\ req[r].pc = "retrieve" => ~BestFaqHitQualifies(req[r].faq_results)
            /\ req[r].pc = "sc_yielded" => BestFaqHitQualifies(req[r].faq_results)
            /\ Cardinality(CallsOf(r, "generate_answer")) <= 1
            /\ (req[r].pc \in {"sc_yielded", "done", "cancelled"}
                  /\ BestFaqHitQualifies(req[r].faq_results)) =>
                  /\ ChunkEvents(r) =
                       <<[kind |-> "chunk",
                          data |-> FaqPrefix \o req[r].faq_results[1].metadata.answer]>>
                  /\ CallsOf(r, "generate_answer") = {}
                  /\ SearchesOn(r, COLLECTION_STANDARD) = {}
                  /\ req[r].pc = "done" =>
                        /\ Len(TurnsBy(r, "assistant")) = 1
                        /\ TurnsBy(r, "assistant")[1].item.content =
                             FaqPrefix \o req[r].faq_results[1].metadata.answer
            /\ (req[r].pc = "done" /\ ~BestFaqHitQualifies(req[r].faq_results)) =>
                  /\ Cardinality(CallsOf(r, "generate_answer")) = 1
                  /\ Cardinality(SearchesOn(r, COLLECTION_STANDARD)) = 1

\* a public-tier execution has short-circuited on a hit of similarity 0.8
C8_Witness ==
    \E r \in Reqs :
        /\ req[r].tier = "public"
        /\ req[r].pc = "done"
        /\ BestFaqHitQualifies(req[r].faq_results)
        /\ req[r].faq_results[1].score = Hundredths(FAQ_THRESHOLD)
        /\ CallsOf(r, "generate_answer") = {}

-----------------------------------------------------------------------------
(* C9 *)

\* C9: every search and every generation call of an execution comes after
\* its append of the user turn, which comes after the read of the history
\* and the rewrite; an execution that has made such a call, or whose
\* retrieval failed, has appended its raw query as a user turn.
C9_UserTurnFirst ==
    \A r \in Reqs :
        /\ \A i \in WorkCalls(r) :
              \E j \in CallsOf(r, "append_user") :
                 /\ j < i
                 /\ \E k \in CallsOf(r, "get_recent_turns") : k < j
        /\ (WorkCalls(r) # {} \/ req[r].pc = "failed") =>
              /\ Len(TurnsBy(r, "user")) = 1
              /\ TurnsBy(r, "user")[1].item.content = QueryOf(r)

\* the retrieval of an execution failed and its user turn is in the log
C9_Witness ==
    \E r \in Reqs :
        /\ req[r].pc = "failed"
        /\ Len(TurnsBy(r, "user")) = 1
        /\ \E i \in 1..Len(chat_history[req[r].sid]) :
              chat_history[req[r].sid][i] = TurnJson("user", QueryOf(r))

-----------------------------------------------------------------------------
(* C11 *)

\* C11 as claimed: once a delete_session call has ended, no session has its
\* metadata entry removed by the deletion while its turn log still exists.
C11_AsClaimed ==
    del.pc = "idle" =>
        \A sid \in SessionIds :
            written[sid].deleted => chat_history[HistoryKey(sid)] = <<>>

-----------------------------------------------------------------------------
(* C12 *)

\* C12 as claimed: a session that exists and was written to (created,
\* appended to, or given a title) less than one ttl ago has its metadata
\* entry, and has its turn log if a turn was ever appended to it.
C12_AsClaimed ==
    \A sid \in SessionIds :
        (written[sid].created /\ ~written[sid].deleted /\ written[sid].age < ttl) =>
            /\ user_sessions[written[sid].owner][sid] # NoMeta
            /\ appended[sid] # <<>> => chat_history[HistoryKey(sid)] # <<>>

-----------------------------------------------------------------------------
(* C13 *)

\* C13: every metadata entry in the store is under the user that created
\* the session and has the type the session was created with, after any
\* creations, title updates, appends, deletions and expiries.
C13_TypePermanent ==
    \A user_id \in UserIds, sid \in SessionIds :
        user_sessions[user_id][sid] # NoMeta =>
            /\ written[sid].created
            /\ written[sid].owner = user_id
            /\ user_sessions[user_id][sid].type = written[sid].type

\* a session of a type other than public has got a title and a turn, and
\* another session was deleted
C13_Witness ==
    \E user_id \in UserIds, sid \in SessionIds :
        /\ user_sessions[user_id][sid] # NoMeta
        /\ user_sessions[user_id][sid].type = "internal"
        /\ user_sessions[user_id][sid].title = NewTitle
        /\ chat_history[HistoryKey(sid)] # <<>>
        /\ \E other \in SessionIds \ {sid} : written[other].deleted

-----------------------------------------------------------------------------
(* What the claims observe of a _keyword_rerank call *)

Ids(docs) == [i \in 1..Len(docs) |-> docs[i].id]

\* the position of a document in the list given to the call
InputIndex(d) == CHOOSE i \in 1..Len(fuse.docs) : fuse.docs[i].id = d.id

\* the score the document at position i of the given list carries afterwards
ScoreAfter(i) ==
    LET d == CHOOSE x \in {fuse.after[j] : j \in 1..Len(fuse.after)} :
                 x.id = fuse.docs[i].id
    IN  d.score

\* no token of the query is longer than one symbol
NoLongToken(query) ==
    \A i \in 1..(Len(query) - 1) : query[i] = " " \/ query[i + 1] = " "

FuseCalled == fuse.stage \in {"called", "again"}

\* the candidates of the call all carry the same raw score
FlatBatch ==
    /\ fuse.docs # <<>>
    /\ \A i, j \in 1..Len(fuse.docs) : fuse.docs[i].score = fuse.docs[j].score

-----------------------------------------------------------------------------
(* C14 *)

\* C14 as claimed: _keyword_rerank applied to its own result, with the same
\* query and final_k, returns the documents in the same order.
C14_AsClaimed ==
    fuse.stage = "again" => Ids(fuse.again) = Ids(fuse.out)

\* C14 as amended: _keyword_rerank applied to its own result returns the
\* same documents; it returns them in the same order when the query has no
\* keyword or the documents of the result all have the same keyword
\* coverage.  (Otherwise the second call normalises the fused scores and adds
\* the coverage again, which can reorder them.)
C14_RefuseSameDocuments ==
    fuse.stage = "again" =>
        /\ Len(fuse.again) = Len(fuse.out)
        /\ {fuse.again[i].id : i \in 1..Len(fuse.again)} =
              {fuse.out[i].id : i \in 1..Len(fuse.out)}
        /\ (\/ NoLongToken(fuse.query)
            \/ \A i, j \in 1..Len(fuse.out) :
                  fuse.coverage[InputIndex(fuse.out[i])] =
                     fuse.coverage[InputIndex(fuse.out[j])]) =>
              Ids(fuse.again) = Ids(fuse.out)

\* a result of three documents with different fused scores and the same
\* non-zero coverage was fused again
C14_Witness ==
    /\ fuse.stage = "again"
    /\ ~NoLongToken(fuse.query)
    /\ Len(fuse.out) = 3
    /\ \A i \in 1..3 : fuse.coverage[i] = <<1, 2>>
    /\ fuse.out[1].score # fuse.out[2].score
    /\ fuse.out[2].score # fuse.out[3].score
    /\ Ids(fuse.out) # Ids(fuse.docs)
    /\ Ids(fuse.again) = Ids(fuse.out)

-----------------------------------------------------------------------------
(* C15 *)

\* C15 as claimed: when all candidates have the same raw score, every
\* normalised similarity is 1 and every fused score is 0.6 + 0.4 x coverage.
C15_AsClaimed ==
    (FuseCalled /\ FlatBatch /\ ~NoLongToken(fuse.query)) =>
        \A i \in 1..Len(fuse.docs) :
            /\ fuse.norms[i] = <<1, 1>>
            /\ ScoreAfter(i) =
                 RatAdd(Rat(6, 10), RatMul(Rat(4, 10), fuse.coverage[i]))

\* C15 as amended: when all candidates have the same raw score (a single
\* candidate included), the score range is taken as 1, every normalised
\* similarity is 0 and every fused score is 0.4 x coverage.
C15_FlatBatchNormZero ==
    (FuseCalled /\ FlatBatch /\ ~NoLongToken(fuse.query)) =>
        \A i \in 1..Len(fuse.docs) :
            /\ fuse.norms[i] = <<0, 1>>
            /\ ScoreAfter(i) = RatMul(Rat(4, 10), fuse.coverage[i])

\* a single candidate with full coverage was fused, and two candidates of
\* equal score would be too
C15_Witness ==
    /\ FuseCalled
    /\ FlatBatch
    /\ Len(fuse.docs) = 1
    /\ fuse.coverage = <<(<<1, 1>>)>>
    /\ fuse.out[1].score = <<2, 5>>

-----------------------------------------------------------------------------
(* C16 *)

\* the candidates of the example: raw scores 0.9, 0.5, 0.1 and keyword
\* coverage 0, 1, 0.5
C16_Example ==
    /\ FuseCalled
    /\ Len(fuse.docs) = 3
    /\ fuse.docs[1].score = Hundredths(90)
    /\ fuse.docs[2].score = Hundredths(50)
    /\ fuse.docs[3].score = Hundredths(10)
    /\ fuse.coverage = <<(<<0, 1>>), (<<1, 1>>), (<<1, 2>>)>>

\* C16: for raw scores 0.9, 0.5, 0.1 and coverage 0, 1, 0.5 the normalised
\* similarities are 1, 0.5, 0, the fused scores are 0.6, 0.7, 0.2 and the
\* result is candidate 2, candidate 1, candidate 3 (cut to final_k).
C16_WorkedExample ==
    C16_Example =>
        /\ fuse.norms = <<(<<1, 1>>), (<<1, 2>>), (<<0, 1>>)>>
        /\ ScoreAfter(1) = <<3, 5>>
        /\ ScoreAfter(2) = <<7, 10>>
        /\ ScoreAfter(3) = <<1, 5>>
        /\ Ids(fuse.out) = Take(<<"2", "1", "3">>, fuse.final_k)
        /\ Ids(fuse.after) = <<"2", "1", "3">>

\* the example was fused with final_k = 3
C16_Witness ==
    /\ C16_Example
    /\ fuse.final_k = 3
    /\ Len(fuse.out) = 3

-----------------------------------------------------------------------------
(* C17 *)

\* C17: when no token of the query is longer than one symbol, the call
\* returns the first final_k candidates in their order, and the list given
\* to it is as before: no score is changed, no document is moved.
C17_NoKeywordsNoChange ==
    (FuseCalled /\ NoLongToken(fuse.query)) =>
        /\ fuse.out = Take(fuse.docs, fuse.final_k)
        /\ fuse.after = fuse.docs

\* a query without keyword was fused over three unsorted candidates whose
\* content holds symbols of the query, with final_k = 2
C17_Witness ==
    /\ FuseCalled
    /\ NoLongToken(fuse.query)
    /\ Len(fuse.docs) = 3
    /\ fuse.final_k = 2
    /\ RatLT(fuse.docs[1].score, fuse.docs[2].score)
    /\ \E i \in 1..3 : IsSubstring(<<"a">>, fuse.docs[i].content)
    /\ Len(fuse.out) = 2

-----------------------------------------------------------------------------
(* C18 *)

\* the execution holds the history it loaded and its rewritten query
HoldsRewrite(r) == req[r].pc \in {"append_user", "faq", "retrieve"}

\* C18: an execution that loaded an empty recency window has the raw query
\* as its rewritten query and has made no call of the rewriter.
C18_EmptyHistoryNoRewrite ==
    \A r \in Reqs :
        (HoldsRewrite(r) /\ req[r].history = <<>>) =>
            /\ req[r].rewritten = QueryOf(r)
            /\ CallsOf(r, "rewrite") = {}
            /\ CallsOf(r, "get_recent_turns") # {}

\* an execution runs on a session without turns, with its rewritten query
C18_Witness ==
    \E r \in Reqs :
        /\ req[r].pc = "retrieve"
        /\ req[r].history = <<>>
        /\ req[r].rewritten = QueryOf(r)
        /\ chat_history[HistoryKey(req[r].sid)] # <<>>

-----------------------------------------------------------------------------
(* C19 *)

RewriteRaised(r) == CallsOf(r, "rewrite_raised") # {}

\* C19: when the rewriter call raises, the rewritten query is the raw query,
\* no error event comes of it, and the execution appends the user turn,
\* retrieves, synthesizes and persists as any other.
C19_RewriteFailureDegrades ==
    \A r \in Reqs :
        RewriteRaised(r) =>
            /\ HoldsRewrite(r) => req[r].rewritten = QueryOf(r)
            /\ req[r].pc = "failed" =>
                  (req[r].tier = "personal" /\ req[r].user.user_id = "")
            /\ req[r].pc \in {"faq", "retrieve", "stream", "yielded",
                              "sc_yielded", "err_yielded", "done"} =>
                  Len(TurnsBy(r, "user")) = 1
            /\ req[r].pc \in {"stream", "yielded", "err_yielded"} => WorkCalls(r) # {}
            /\ req[r].pc = "done" =>
                  /\ Len(TurnsBy(r, "assistant")) = 1
                  /\ \/ CallsOf(r, "generate_answer") # {}
                     \/ (req[r].tier = "public"
                           /\ BestFaqHitQualifies(req[r].faq_results))

\* an execution whose rewriter call raised has run to its end with a
\* synthesized answer
C19_Witness ==
    \E r \in Reqs :
        /\ RewriteRaised(r)
        /\ req[r].pc = "done"
        /\ CallsOf(r, "generate_answer") # {}
        /\ Len(TurnsBy(r, "assistant")) = 1

-----------------------------------------------------------------------------
(* C20 *)

\* what a collection holds for the query of the call
HitsOf(col) == IF col = COLLECTION_FAQ THEN vsearch.env.faq ELSE IndexData(col)

\* the call names a collection that does not exist or whose query raises
NamesBadCollection ==
    \E i \in 1..Len(vsearch.collections) :
        \/ vsearch.collections[i] \notin vsearch.env.existing
        \/ vsearch.collections[i] \in vsearch.env.raising

\* C20: a search whose embedding and list_collections calls work returns
\* what the same search returns when it names only the collections that
\* exist and answer: a missing or raising collection adds no document and
\* takes none of the others away.
C20_BadCollectionSkipped ==
    (vsearch.stage = "called" /\ vsearch.env.embed_ok /\ vsearch.env.list_ok) =>
        /\ vsearch.out = vsearch.rest
        /\ \A i \in 1..Len(vsearch.out) :
              \E j \in 1..Len(vsearch.collections) :
                 LET col == vsearch.collections[j]
                 IN  /\ col \in vsearch.env.existing
                     /\ col \notin vsearch.env.raising
                     /\ \E h \in 1..Len(HitsOf(col)) :
                           HitsOf(col)[h].id = vsearch.out[i].id
        /\ (Len(vsearch.collections) = 2 /\ vsearch.top_k = 10
              /\ vsearch.filters = NoFilter) =>
              \A j \in 1..2 :
                 LET col == vsearch.collections[j]
                     data == HitsOf(col)
                 IN  (col \in vsearch.env.existing /\ col \notin vsearch.env.raising) =>
                        \A h \in 1..Len(data) :
                           \E i \in 1..Len(vsearch.out) : vsearch.out[i].id = data[h].id

\* a search naming a raising collection first and an answering one second
\* has returned the hits of the second
C20_Witness ==
    /\ vsearch.stage = "called"
    /\ NamesBadCollection
    /\ Len(vsearch.collections) = 2
    /\ vsearch.collections[1] \in vsearch.env.raising
    /\ vsearch.collections[2] = COLLECTION_STANDARD
    /\ vsearch.env.existing = Collections
    /\ Len(vsearch.out) = 2


-----------------------------------------------------------------------------
(* C21 *)

\* the execution of r has passed _retrieve_strategy without an exception
PastRetrieval(r) ==
    req[r].pc \in {"stream", "yielded", "err_yielded", "done", "cancelled"}
    /\ CallsOf(r, "search") # {}

\* C21: when every search of an execution fails softly (the embedding
\* raises, list_collections raises, or the similarity query raises on every
\* collection), the execution is not aborted: no FAQ answer short-circuits
\* and no error event is sent, the synthesizer is called exactly once, with
\* an empty context, and an execution that ends has persisted its assistant
\* turn, which is the last turn it appended.
C21_SoftFailureNotAborting ==
    \A r \in OneReq :
        /\ req[r].pc # "sc_yielded"
        /\ req[r].pc = "failed" =>
              req[r].tier = "personal" /\ ~Truthy(req[r].user.user_id)
        /\ PastRetrieval(r) =>
              /\ Cardinality(CallsOf(r, "generate_answer")) = 1
              /\ \A i \in 1..Len(req[r].events) : req[r].events[i].kind # "error"
        /\ req[r].pc = "stream" /\ req[r].n_chunks = 0 => req[r].context = <<>>
        /\ req[r].pc = "done" =>
              /\ Len(TurnsBy(r, "assistant")) = 1
              /\ Len(TurnsBy(r, "user")) = 1

\* an execution on the public tier has ended after a failed FAQ search and a
\* failed search of the standard collection, and its turns are in the log
C21_Witness ==
    \E r \in OneReq :
        /\ req[r].pc = "done"
        /\ req[r].tier = "public"
        /\ SearchesOn(r, COLLECTION_FAQ) # {}
        /\ SearchesOn(r, COLLECTION_STANDARD) # {}
        /\ Cardinality(CallsOf(r, "generate_answer")) = 1
        /\ Len(chat_history[req[r].sid]) = 2


-----------------------------------------------------------------------------
(* C22 *)

\* the events of r that end its event stream: the end marker, an error event
TerminalEvents(r) ==
    {i \in 1..Len(req[r].events) : req[r].events[i].kind \in {"done", "error"}}

\* the state of the execution a call belongs to, in the order of the states:
\* REWRITE, FAQ_CHECK, RETRIEVE and FUSE, SYNTHESIZE, PERSIST
StateRank(call) ==
    CASE call.op = "get_recent_turns" -> 1
      [] call.op \in {"rewrite", "rewrite_raised"} -> 1
      [] call.op = "append_user" -> 2
      [] call.op = "search" /\ call.cols = <<COLLECTION_FAQ>> -> 3
      [] call.op = "search" /\ call.cols # <<COLLECTION_FAQ>> -> 4
      [] call.op = "generate_answer" -> 5
      [] call.op = "append_ai" -> 6

\* the event stream of r has ended with one terminal event
StreamEnded(r) ==
    /\ req[r].pc \in {"done", "failed"}
    /\ TerminalEvents(r) = {Len(req[r].events)}

\* C22: a request admitted to a pipeline whose stream is consumed gets an
\* event stream that eventually ends; the stream holds at most one terminal
\* event, the end marker or an error event, and nothing follows it; the
\* calls of the execution are made in the order of the states REWRITE,
\* FAQ_CHECK, RETRIEVE and FUSE, SYNTHESIZE, PERSIST, each state at most
\* once entered, chunks are sent only after the FAQ search or the call of
\* the synthesizer, and the end marker only after the assistant turn is
\* persisted.
C22_StreamEndsOnce ==
    /\ [](\A r \in Reqs :
            /\ Cardinality(TerminalEvents(r)) <= 1
            /\ \A i \in TerminalEvents(r) : i = Len(req[r].events)
            /\ req[r].pc \in {"done", "failed"} => TerminalEvents(r) # {}
            /\ \A i, j \in 1..Len(req[r].calls) :
                  i < j => StateRank(req[r].calls[i]) <= StateRank(req[r].calls[j])
            /\ ChunkEvents(r) # <<>> =>
                  \/ CallsOf(r, "generate_answer") # {}
                  \/ SearchesOn(r, COLLECTION_FAQ) # {}
            /\ (\E i \in TerminalEvents(r) : req[r].events[i].kind = "done") =>
                  /\ req[r].calls # <<>>
                  /\ req[r].calls[Len(req[r].calls)].op = "append_ai")
    /\ \A r \in Reqs : (req[r].pc = "exec") ~> StreamEnded(r)

\* both requests have ended with the end marker, the second after a rewrite,
\* a search and chunks
C22_Witness ==
    /\ StreamEnded("r1")
    /\ req["r1"].events[Len(req["r1"].events)].kind = "done"
    /\ StreamEnded("r2")
    /\ req["r2"].events[Len(req["r2"].events)].kind = "done"
    /\ CallsOf("r2", "rewrite") # {}
    /\ CallsOf("r2", "generate_answer") # {}
    /\ Len(ChunkEvents("r2")) = MaxChunks


-----------------------------------------------------------------------------
(* C23 *)

\* the roles of the turns of session sid, in the order of the log
RolesOf(sid) == [i \in 1..Len(appended[sid]) |-> appended[sid][i].item.role]

-----------------------------------------------------------------------------
(* C24 *)

IsPrefix(a, b) == Len(a) <= Len(b) /\ SubSeq(b, 1, Len(a)) = a

\* the text holds a chunk the generation model streamed to request o
HoldsChunkOf(text, o) == \E i \in 1..Len(text) : text[i] = o

\* C24: under every interleaving of two executions, on one session or on
\* two, the answer buffer of an execution is made of the chunks forwarded by
\* that execution, in their order, and holds no chunk of the other
\* execution; the assistant turn an execution has persisted is the
\* concatenation of the chunks it forwarded.
C24_BufferOwned ==
    \A r \in Reqs :
        /\ IsPrefix(req[r].full_answer, Forwarded(r))
        /\ \A o \in Reqs \ {r} : ~HoldsChunkOf(req[r].full_answer, o)
        /\ \A sid \in SessionIds : \A i \in 1..Len(appended[sid]) :
              appended[sid][i].by = r /\ appended[sid][i].item.role = "assistant" =>
                  /\ appended[sid][i].item.content = Forwarded(r)
                  /\ \A o \in Reqs \ {r} :
                        ~HoldsChunkOf(appended[sid][i].item.content, o)

\* two executions of one tier on one session were interleaved, each streamed
\* a chunk, and each has persisted its own
C24_Witness ==
    \E sid \in SessionIds :
        /\ RolesOf(sid) = <<"user", "user", "assistant", "assistant">>
        /\ \A r \in Reqs :
              /\ req[r].pc = "done"
              /\ req[r].sid = sid
              /\ HoldsChunkOf(Forwarded(r), r)
        /\ \A i \in {3, 4} :
              HoldsChunkOf(appended[sid][i].item.content, appended[sid][i].by)


-----------------------------------------------------------------------------
(* C25 *)

\* the names of one search call are different collections
DistinctNames(cols) ==
    \A i, j \in 1..Len(cols) : cols[i] = cols[j] => i = j

\* C25: one execution calls the query rewriter at most once and the
\* synthesizer at most once, names every collection in at most one search
\* call and at most once in that call, and makes at most two search calls,
\* also when the rewriter raised, the embedding of a search raised or the
\* stream of the synthesizer raised.
C25_NoRetry ==
    \A r \in Reqs :
        /\ Cardinality(CallsOf(r, "get_recent_turns")) <= 1
        /\ Cardinality(CallsOf(r, "rewrite")) <= 1
        /\ Cardinality(CallsOf(r, "rewrite_raised"))
              <= Cardinality(CallsOf(r, "rewrite"))
        /\ Cardinality(CallsOf(r, "generate_answer")) <= 1
        /\ Cardinality(CallsOf(r, "search")) <= 2
        /\ \A col \in Collections : Cardinality(SearchesOn(r, col)) <= 1
        /\ \A i \in CallsOf(r, "search") : DistinctNames(req[r].calls[i].cols)

\* an execution has ended in which the rewriter raised and the stream of the
\* synthesizer raised, after one call of each and one search
C25_Witness ==
    \E r \in Reqs :
        /\ req[r].pc = "done"
        /\ Cardinality(CallsOf(r, "rewrite_raised")) = 1
        /\ Cardinality(CallsOf(r, "rewrite")) = 1
        /\ Cardinality(CallsOf(r, "search")) = 1
        /\ Cardinality(CallsOf(r, "generate_answer")) = 1
        /\ ChunkEvents(r) # <<>>
        /\ ChunkEvents(r)[Len(ChunkEvents(r))].data = ErrorChunk(req[r].tier)


-----------------------------------------------------------------------------
(* C26 *)

\* C26: in every step the turn log of every session stays as it is, or gets
\* exactly one turn added at its tail, or is emptied by the DEL of
\* delete_session or by the end of its lifetime; no step removes, reorders
\* or rewrites a turn otherwise, in particular not the update of the title.
C26_AppendOnly ==
    [][\A sid \in SessionIds :
          \/ chat_history'[sid] = chat_history[sid]
          \/ /\ Len(chat_history'[sid]) = Len(chat_history[sid]) + 1
             /\ SubSeq(chat_history'[sid], 1, Len(chat_history[sid]))
                   = chat_history[sid]
          \/ /\ chat_history'[sid] = <<>>
             /\ \/ del.pc = "hdel_done" /\ del.sid = sid /\ del'.pc = "idle"
                \/ key_ttl.hist[sid] = 1 /\ key_ttl'.hist[sid] = 0]_vars

\* a session holds two turns in the order of their appends and its title
\* has been updated
C26_Witness ==
    \E sid \in SessionIds :
        /\ Len(chat_history[sid]) = 2
        /\ chat_history[sid][1].content = StoreContent(1)
        /\ chat_history[sid][2].content = StoreContent(2)
        /\ user_sessions[LogUser.user_id][sid].title = NewTitle


-----------------------------------------------------------------------------
(* C27 *)

\* the hits the similarity queries of the call return, each query limited to
\* top_k, flattened in the order of the names
FlattenedHits ==
    SearchCollections(vsearch.collections, vsearch.top_k, vsearch.filters,
                      vsearch.env)

SearchWorked ==
    vsearch.stage = "called" /\ vsearch.env.embed_ok /\ vsearch.env.list_ok

\* C27 as claimed: every hit a similarity query of a named, existing
\* collection returns is in the list the search returns.
C27_AsClaimed ==
    SearchWorked =>
        \A h \in 1..Len(FlattenedHits) :
            \E i \in 1..Len(vsearch.out) : vsearch.out[i].id = FlattenedHits[h].id

\* C27: the search returns the flattened hits sorted by descending score and
\* cut to top_k in all: it returns min(top_k, number of hits) documents, each
\* of them one of the hits and none twice, in non-increasing order of score,
\* and no hit left out has a higher score than a hit returned; every hit is
\* returned when the queries return no more than top_k hits together.
C27_BestTopKOfFlattened ==
    SearchWorked =>
        /\ Len(vsearch.out) = Min(vsearch.top_k, Len(FlattenedHits))
        /\ \A i \in 1..Len(vsearch.out) :
              \E h \in 1..Len(FlattenedHits) : FlattenedHits[h] = vsearch.out[i]
        /\ \A i, j \in 1..Len(vsearch.out) :
              /\ i < j => RatLE(vsearch.out[j].score, vsearch.out[i].score)
              /\ vsearch.out[i].id = vsearch.out[j].id => i = j
        /\ \A h \in 1..Len(FlattenedHits) :
              \/ \E i \in 1..Len(vsearch.out) : vsearch.out[i] = FlattenedHits[h]
              \/ \A i \in 1..Len(vsearch.out) :
                    RatLE(FlattenedHits[h].score, vsearch.out[i].score)
        /\ Len(FlattenedHits) <= vsearch.top_k =>
              \A h \in 1..Len(FlattenedHits) :
                  \E i \in 1..Len(vsearch.out) : vsearch.out[i] = FlattenedHits[h]

\* a search of two answering collections with top_k = 1 has returned the
\* better of their two hits
C27_Witness ==
    /\ SearchWorked
    /\ vsearch.collections = <<COLLECTION_KNOWLEDGE, COLLECTION_STANDARD>>
    /\ vsearch.top_k = 1
    /\ Len(FlattenedHits) = 2
    /\ Len(vsearch.out) = 1
    /\ vsearch.out[1].id = "d1"

-----------------------------------------------------------------------------
(* C28 *)

\* the scores of a list never rise from one position to the next
NonIncreasing(docs) ==
    \A i \in 1..(Len(docs) - 1) : RatLE(docs[i + 1].score, docs[i].score)

\* C28: when the query has a keyword, _keyword_rerank gives every candidate
\* the score 0.6 x normalised similarity + 0.4 x keyword coverage, a value
\* within [0, 1], and returns a list sorted in non-increasing fused score, of
\* length min(final_k, number of candidates), made of candidates of the input
\* only, none of them twice.
C28_FusedSortedCut ==
    (FuseCalled /\ Keywords(fuse.query) # {}) =>
        /\ \A i \in 1..Len(fuse.docs) :
              /\ ScoreAfter(i) =
                    RatAdd(RatMul(Rat(6, 10), fuse.norms[i]),
                           RatMul(Rat(4, 10), fuse.coverage[i]))
              /\ RatLE(<<0, 1>>, ScoreAfter(i))
              /\ RatLE(ScoreAfter(i), <<1, 1>>)
        /\ NonIncreasing(fuse.out)
        /\ Len(fuse.out) = Min(fuse.final_k, Len(fuse.docs))
        /\ \A i \in 1..Len(fuse.out) :
              /\ \E j \in 1..Len(fuse.docs) :
                    /\ fuse.out[i].id = fuse.docs[j].id
                    /\ fuse.out[i].content = fuse.docs[j].content
                    /\ fuse.out[i].score = ScoreAfter(j)
              /\ \A j \in 1..Len(fuse.out) :
                    fuse.out[i].id = fuse.out[j].id => i = j

\* three candidates given in rising order of fused score were fused with a
\* keyword and cut to two
C28_Witness ==
    /\ FuseCalled
    /\ Keywords(fuse.query) # {}
    /\ Len(fuse.docs) = 3
    /\ fuse.final_k = 2
    /\ Ids(fuse.out) = <<"3", "2">>
    /\ RatLT(fuse.out[2].score, fuse.out[1].score)
    /\ RatLT(ScoreAfter(1), fuse.out[2].score)
    /\ fuse.out[1].score = <<1, 1>>

-----------------------------------------------------------------------------
(* C29 *)

\* the scores of a list, position by position
Scores(docs) == [i \in 1..Len(docs) |-> docs[i].score]

\* no two hits of the retrieval carry the same raw score
NoEqualScores ==
    \A i, j \in 1..Len(fuse.docs) :
        fuse.docs[i].score = fuse.docs[j].score => i = j

\* C29 as claimed: for every order in which the same hits arrive, hits of
\* equal score included, search followed by _keyword_rerank returns the same
\* sequence of documents.
C29_AsClaimed ==
    fuse.stage = "permuted" => Ids(fuse.again) = Ids(fuse.out)

\* C29 as amended: when no two hits carry the same raw score, search
\* followed by _keyword_rerank returns the same documents with the same
\* scores in the same order for every order of arrival; in every case search
\* returns the same sequence of scores.  (Hits of equal score stay in their
\* order of arrival through both sorts.)
C29_OrderFreeWithoutTies ==
    fuse.stage = "permuted" =>
        /\ Scores(fuse.found_again) = Scores(fuse.found)
        /\ NoEqualScores => /\ fuse.found_again = fuse.found
                            /\ fuse.again = fuse.out

\* three hits of different scores arrived in rising order and in another
\* order, search sorted them and the fusion with a keyword put the second
\* best of them first and dropped the last
C29_Witness ==
    /\ fuse.stage = "permuted"
    /\ NoEqualScores
    /\ Len(fuse.docs) = 3
    /\ Ids(fuse.permuted) = <<"2", "3", "1">>
    /\ fuse.top_k = 3
    /\ fuse.final_k = 2
    /\ Keywords(fuse.query) # {}
    /\ Ids(fuse.found) = <<"3", "2", "1">>
    /\ Ids(fuse.out) = <<"2", "3">>
    /\ fuse.again = fuse.out

-----------------------------------------------------------------------------
(* C30 *)

\* the collections of a tier
TierCollections(tier) ==
    CASE tier = "public"   -> {COLLECTION_FAQ, COLLECTION_STANDARD}
      [] tier = "academic" -> {COLLECTION_STANDARD, COLLECTION_KNOWLEDGE}
      [] tier = "internal" -> {COLLECTION_STANDARD, COLLECTION_KNOWLEDGE,
                               COLLECTION_INTERNAL}
      [] tier = "personal" -> {COLLECTION_PERSONAL}
      [] OTHER -> {}

\* the collections the searches of r have named so far
Queried(r) == {col \in Collections : SearchesOn(r, col) # {}}

\* C30: an execution searches only the collections of its tier: FAQ and
\* standard for public, standard and knowledge for academic, standard,
\* knowledge and internal for internal, personal for personal.  The internal
\* collection is searched by internal executions only, the personal one by
\* personal executions only and the FAQ collection by public ones only.
C30_TierCollectionsOnly ==
    \A r \in Reqs :
        /\ Queried(r) \subseteq TierCollections(req[r].tier)
        /\ COLLECTION_INTERNAL \in Queried(r) => req[r].tier = "internal"
        /\ COLLECTION_PERSONAL \in Queried(r) => req[r].tier = "personal"
        /\ COLLECTION_FAQ \in Queried(r) => req[r].tier = "public"

\* a public execution has searched the FAQ and the standard collection and
\* an internal one after it the standard, knowledge and internal collections
C30_Witness ==
    /\ req["r1"].tier = "public"
    /\ req["r1"].pc = "done"
    /\ Queried("r1") = {COLLECTION_FAQ, COLLECTION_STANDARD}
    /\ req["r2"].tier = "internal"
    /\ req["r2"].pc = "done"
    /\ Queried("r2") =
          {COLLECTION_STANDARD, COLLECTION_KNOWLEDGE, COLLECTION_INTERNAL}

-----------------------------------------------------------------------------
(* C31 *)

\* the roles permitted for a tier
PermittedRoles(tier) ==
    CASE tier = "public"   -> {"guest", "student", "teacher", "scholar"}
      [] tier = "academic" -> {"student", "teacher", "scholar"}
      [] tier = "internal" -> {"student", "teacher"}
      [] tier = "personal" -> {"student", "teacher"}

\* the role of the user with a user id
RoleOf(user_id) == (CHOOSE u \in AllUsers : u.user_id = user_id).user_role

\* every admitted request is of a role permitted for its tier, and so is
\* the owner of every session for the type of the session
PermittedOnly ==
    /\ \A r \in Reqs :
          Admitted(r) => req[r].user.user_role \in PermittedRoles(req[r].tier)
    /\ \A sid \in SessionIds :
          written[sid].created =>
             RoleOf(written[sid].owner) \in PermittedRoles(written[sid].type)

\* a chat request of a role that is not permitted for its tier ends with
\* 403 and changes nothing but its own outcome, whatever the session is
RejectedFirst ==
    \A r \in Reqs, u \in AllUsers, tier \in VALID_SESSION_TYPES, sid \in SessionIds :
        (ChatRequest(r, u, tier, sid) /\ u.user_role \notin PermittedRoles(tier)) =>
            /\ req'[r].pc = "rejected"
            /\ req'[r].http = 403
            /\ req'[r].calls = <<>>
            /\ UNCHANGED <<user_sessions, chat_history, rate_limit, appended>>

\* C31: a pipeline of tier t is executed, and a session of type t created,
\* only for a user whose role is permitted for t (public: every role;
\* academic: student, teacher, scholar; internal and personal: student,
\* teacher); a request of another role is rejected before the session check,
\* the rate limiter and every pipeline step.
C31_RolePermitted == []PermittedOnly /\ [][RejectedFirst]_vars

\* a scholar owns an academic session and chats on it, and a teacher's
\* request on an internal session of theirs was admitted too
C31_Witness ==
    /\ written["s1"].created
    /\ written["s1"].owner = ScholarUser.user_id
    /\ written["s1"].type = "academic"
    /\ req["r1"].user = ScholarUser
    /\ req["r1"].tier = "academic"
    /\ req["r1"].pc = "retrieve"
    /\ req["r2"].user = TeacherUser
    /\ req["r2"].tier = "internal"
    /\ req["r2"].pc = "exec"

-----------------------------------------------------------------------------
(* C32 *)

\* the requests that appended a turn to the log of a session
Appenders(sid) ==
    {appended[sid][i].by : i \in 1..Len(appended[sid])} \cap Reqs

\* the session was created for this user with this type
RegisteredTo(sid, user, type) ==
    /\ written[sid].created
    /\ written[sid].owner = user.user_id
    /\ written[sid].type = type

\* C32: an execution appends turns only to the session of its request, and
\* that session was registered under the user id of the requesting user with
\* the requested type when the request was admitted: no turn is appended to
\* a session registered to another user.
C32_AppendsToOwnSession ==
    /\ \A r \in Reqs :
          Admitted(r) => RegisteredTo(req[r].sid, req[r].user, req[r].tier)
    /\ \A sid \in SessionIds : \A r \in Appenders(sid) :
          /\ Admitted(r)
          /\ req[r].sid = sid
          /\ RegisteredTo(sid, req[r].user, req[r].tier)
    /\ \A sid \in SessionIds : \A u \in UserIds :
          user_sessions[u][sid] # NoMeta => written[sid].owner = u

\* two users have a session each; each has chatted on their own to the end
\* and each log holds the turns of its owner's request only
C32_Witness ==
    /\ RegisteredTo("s1", GuestUser, "public")
    /\ RegisteredTo("s2", DeptUser, "personal")
    /\ req["r1"].user = GuestUser
    /\ req["r2"].user = DeptUser
    /\ req["r1"].pc = "done"
    /\ req["r2"].pc = "done"
    /\ Appenders("s1") = {"r1"}
    /\ Appenders("s2") = {"r2"}
    /\ Len(appended["s1"]) = 2
    /\ Len(appended["s2"]) = 2

-----------------------------------------------------------------------------
(* C33 *)

\* C33 as claimed: get_session_detail returns turns of a session only to
\* the user under whose user id the session is registered; another user, a
\* guest included, gets none of its turns.
C33_AsClaimed ==
    (last_read.valid /\ last_read.turns # <<>>) =>
        /\ written[last_read.sid].created
        /\ written[last_read.sid].owner = last_read.user_id

-----------------------------------------------------------------------------
(* C34 *)

\* the step rejects request r
Rejects(r) == req[r].pc # "rejected" /\ req'[r].pc = "rejected"

\* a step that rejects a request for its role (403) or its session (400)
\* changes no turn log, no session entry and no rate counter; a step that
\* rejects it for the rate limit (429) changes no turn log and no session
\* entry; a request is rejected with one of the three
RejectionFrame ==
    \A r \in Reqs :
        Rejects(r) =>
            /\ req'[r].http \in {400, 403, 429}
            /\ UNCHANGED <<chat_history, user_sessions, key_ttl, appended>>
            /\ req'[r].http \in {400, 403} => UNCHANGED rate_limit
            /\ req'[r].calls = <<>>

\* a rejected request takes no further step
RejectedStays ==
    \A r \in Reqs :
        req[r].pc = "rejected" => req'[r] = req[r] \/ req'[r] = IdleReq

\* C34: a chat request rejected for a disallowed role or for a session of
\* another type or owner leaves the store unchanged: no turn appended, no
\* title changed, the guest rate counter not incremented; a request rejected
\* by the rate limiter appends no turn and changes no title.
C34_RejectionChangesNothing == [][RejectionFrame /\ RejectedStays]_vars

\* a guest's request was rejected by the rate limiter and another request
\* for the session type, with a title set by an earlier request of the
\* window
C34_Witness ==
    /\ req["r1"].pc = "rejected"
    /\ req["r1"].http = 429
    /\ req["r2"].pc = "rejected"
    /\ req["r2"].http = 400
    /\ rate_limit[GuestUser.user_id] = GUEST_RATE_LIMIT + 1
    /\ user_sessions[GuestUser.user_id]["s1"] # NoMeta
    /\ user_sessions[GuestUser.user_id]["s1"].title # DefaultTitle

-----------------------------------------------------------------------------
(* C35 *)

\* request r passes the rate limiter in this step
LimiterDecides(r) == req[r].pc = "rate_limit" /\ req'[r].pc # "rate_limit"

\* the limiter counts every request it sees and admits exactly those whose
\* count in the window is at most 10
LimiterCounts ==
    \A r \in Reqs :
        LimiterDecides(r) =>
            LET uid == req[r].user.user_id
            IN  /\ rate_limit'[uid] = rate_limit[uid] + 1
                /\ IF rate_limit'[uid] <= 10
                   THEN req'[r].pc = "title"
                   ELSE req'[r].pc = "rejected" /\ req'[r].http = 429

\* a counter changes only by one request counted or by the end of its window
CounterMoves ==
    \A uid \in UserIds :
        rate_limit'[uid] # rate_limit[uid] =>
            \/ rate_limit'[uid] = 0
            \/ /\ rate_limit'[uid] = rate_limit[uid] + 1
               /\ \E r \in Reqs : LimiterDecides(r) /\ req[r].user.user_id = uid

\* no request of a guest gets past the checks without the limiter
GuestsLimited ==
    \A r \in Reqs :
        (req[r].pc = "idle" /\ req'[r].pc \notin {"idle", "rejected"}
            /\ req'[r].user.user_role = "guest") => req'[r].pc = "rate_limit"

\* C35: the requests of a guest identity are counted one by one from the
\* start of a window; those counted 1 to 10 are admitted, the 11th and later
\* ones are rejected with 429, and the count starts again at 0 when the
\* window has expired, so that the next request is admitted.
C35_TenPerWindow == [][LimiterCounts /\ CounterMoves /\ GuestsLimited]_vars

\* a guest's request was rejected as the 11th or a later one of a window,
\* the window has expired and the next request of the guest is admitted as
\* the first of a new window
C35_Witness ==
    /\ req["r1"].pc = "rejected"
    /\ req["r1"].http = 429
    /\ req["r2"].user = GuestUser
    /\ req["r2"].pc = "exec"
    /\ rate_limit[GuestUser.user_id] = 1

-----------------------------------------------------------------------------
(* C36 *)

\* delete_session has returned true for the session
DeleteReturnedTrue(sid) ==
    written[sid].deleted /\ ~(del.pc = "hdel_done" /\ del.sid = sid)

\* C36 as claimed: once delete_session has returned true for a session id,
\* no metadata entry and no turn log of that id exists in any later state,
\* whatever executions or title updates on the session were in flight.
C36_AsClaimed ==
    \A sid \in SessionIds :
        DeleteReturnedTrue(sid) =>
            /\ \A u \in UserIds : user_sessions[u][sid] = NoMeta
            /\ chat_history[HistoryKey(sid)] = <<>>

-----------------------------------------------------------------------------
(* C37 *)

\* the roles of the turns in the log of a session
LogRoles(sid) ==
    [i \in 1..Len(chat_history[HistoryKey(sid)]) |->
        chat_history[HistoryKey(sid)][i].role]

\* no execution on the session ended with an exception of its retrieval
NoPolicyViolation(sid) ==
    \A r \in Reqs : req[r].sid = sid => req[r].pc # "failed"

\* an execution is running
Executing(r) ==
    req[r].pc \notin {"idle", "rejected", "rate_limit", "title", "title_hget",
                      "title_hset", "exec", "done", "failed"}

\* C37: when the executions on a session run one after the other, each
\* consumed to its end, and none of them ends with a policy violation of its
\* retrieval, the log alternates user, assistant from a user turn on, every
\* execution that has ended added one user turn followed by one assistant
\* turn, and the log has even length while no execution is running.
C37_SerialAlternation ==
    \A sid \in SessionIds :
        NoPolicyViolation(sid) =>
            /\ \A i \in 1..Len(LogRoles(sid)) :
                  LogRoles(sid)[i] = IF i % 2 = 1 THEN "user" ELSE "assistant"
            /\ \A r \in Reqs :
                  (req[r].pc = "done" /\ req[r].sid = sid) =>
                     \E i \in 1..Len(appended[sid]) :
                        /\ i % 2 = 1
                        /\ i < Len(appended[sid])
                        /\ appended[sid][i].by = r
                        /\ appended[sid][i + 1].by = r
                        /\ Cardinality({j \in 1..Len(appended[sid]) :
                                          appended[sid][j].by = r}) = 2
            /\ (\A r \in Reqs : ~Executing(r)) => Len(LogRoles(sid)) % 2 = 0

\* two executions on one session, one after the other, the first answered
\* from the FAQ collection and the second by the generation model
C37_Witness ==
    /\ req["r1"].pc = "done"
    /\ req["r2"].pc = "done"
    /\ req["r1"].sid = "s1"
    /\ req["r2"].sid = "s1"
    /\ CallsOf("r1", "generate_answer") = {}
    /\ CallsOf("r2", "generate_answer") # {}
    /\ LogRoles("s1") = <<"user", "assistant", "user", "assistant">>

-----------------------------------------------------------------------------
(* C38 *)

\* the first user turn of a log
FirstUserTurn(log) ==
    log[CHOOSE i \in 1..Len(log) :
           /\ log[i].role = "user"
           /\ \A j \in 1..(i - 1) : log[j].role # "user"]

\* C38 as claimed, for the sessions of users with a non-empty user id:
\* whenever the turn log of a session is non-empty, the title of the session
\* is the first 15 characters of the first user turn of the log, under every
\* interleaving of concurrent chat requests on the session.
C38_AsClaimed ==
    \A sid \in SessionIds :
        LET log == chat_history[HistoryKey(sid)]
            owner == written[sid].owner
        IN  (/\ written[sid].created
             /\ Truthy(owner)
             /\ user_sessions[owner][sid] # NoMeta
             /\ \E i \in 1..Len(log) : log[i].role = "user") =>
                user_sessions[owner][sid].title =
                    Take(FirstUserTurn(log).content, TITLE_LEN)

-----------------------------------------------------------------------------
(* C39 *)

\* the tokens refresh_token has issued for a presented token
IssuedFrom(old_rt) == {t \in Tokens : refresh.parent[t] = old_rt}

\* C39 as claimed: a refresh token is redeemed at most once, that is, at
\* most one new token pair is ever issued for a presented token, under every
\* interleaving of refresh calls.
C39_AsClaimed ==
    \A old_rt \in Tokens : Cardinality(IssuedFrom(old_rt)) <= 1

-----------------------------------------------------------------------------
(* C40 *)

\* the user has no metadata entry for the session id: the session is of
\* another user, or the id is unknown
NotOwner(user_id, sid) == user_sessions[user_id][sid] = NoMeta

\* a delete call of a user on a session id that is not theirs
RefusedDelete(u, sid) == NotOwner(u.user_id, sid) /\ DeleteSessionCall(u, sid)

\* C40: a delete_session call by a user who does not own the session id, or
\* for an unknown session id, does not succeed (delete_session returns False,
\* the endpoint does not answer 200) and leaves every metadata entry and
\* every turn log as it was.
C40_RefusedDeleteChangesNothing ==
    [][\A u \in Users, sid \in SessionIds :
          RefusedDelete(u, sid) =>
              /\ last_read'.http \in {401, 404}
              /\ user_sessions' = user_sessions
              /\ chat_history' = chat_history]_vars

\* a delete call on a session of another user, with turns in its log, was
\* answered 404 and the entry and the log are there
C40_Witness ==
    /\ last_read.valid
    /\ last_read.http = 404
    /\ \E owner \in UserIds \ {last_read.user_id} :
          /\ user_sessions[owner][last_read.sid] # NoMeta
          /\ written[last_read.sid].owner = owner
    /\ chat_history[HistoryKey(last_read.sid)] # <<>>

====
